---- MODULE Spec2Model ----
(***************************************************************************)
(* negapedia/wikibrief: the streaming decoder of a dump file (run and the  *)
(* builder state machine bBase/bStarted/bTitled/bSetted), its online       *)
(* revert detector, and the fan-out of a page stream (FanOut, fanOutPages, *)
(* fanOutRevisions), and the pipeline New builds around the decoders: the    *)
(* orchestrator that starts one decoder per dump file, the latch fail, the *)
(* enricher completeInfo and its drain helpers emptyRevisions.             *)
(*                                                                         *)
(* Go channels are records [buf, closed, maker, closer]; a send needs room *)
(* in buf, a receive takes the head of buf, a receive on a closed and      *)
(* empty channel reports "closed".  Closing a closed channel and sending   *)
(* on a closed channel panic, which stops the whole program.               *)
(***************************************************************************)
EXTENDS Integers, Sequences, FiniteSets, TLC

VARIABLES
    ctxDone,    \* the context given to run / FanOut is cancelled
    panicked,   \* "" or the message of the runtime panic that stopped the program
    doc,        \* doc[f]: the tokens decoder f has read from its file so far, but for
                \* those the loop of run passes over (xmlEvent not one of its five cases)
    pc,         \* pc[f]: where decoder f stands: idle, token, sendPage, sendRev, done
    st,         \* st[f]: the builder b of run (the current state of the state machine)
    pend,       \* pend[f]: the value of the send decoder f is blocked on
    ret,        \* ret[f]: the error run returned
    pageCh,     \* the page channels: pageCh[1] is OutStream, the others are FanOut's
    revCh,      \* the revisions channels, in order of creation (make)
    origin,     \* origin[c]: where revisions channel c comes from (file and token, or replicated channel)
    pubs,       \* the EvolvingPages sent on OutStream, in order, with the token that made them
    sent,       \* sent[c]: the revisions sent on channel c so far
    recv,       \* recv[c]: the revisions received from channel c so far
    outs,       \* the result of FanOut: the page channels the consumers read
    got,        \* got[o]: the pages consumer o has received from outs[o]
    fan,        \* the coordinator goroutine fanOutPages
    cop,        \* cop[k]: the k-th goroutine fanOutRevisions
    orch,       \* the goroutine of New that opens the files and starts the decoders
    latch,      \* the error fail has stored (NilErr: none yet)
    wrk,        \* wrk[w]: the w-th worker of completeInfo
    drn,        \* drn[k]: the k-th goroutine of emptyRevisions
    looked,     \* the abstract lookups made so far: the page and what came back
    readers     \* readers[f]: the io.ReadCloser of dump file f

\* The goroutines and the state New adds to the decoders.
stage == <<orch, latch, wrk, drn, looked, readers>>

vars == <<ctxDone, panicked, doc, pc, st, pend, ret, pageCh, revCh, origin, pubs,
          sent, recv, outs, got, fan, cop, orch, latch, wrk, drn, looked, readers>>

-----------------------------------------------------------------------------
(* Bounds of the model *)

NumFiles == 3
\* The files of the dump New reads, but for the specification of the slots, which
\* reads NumFiles.
DumpFiles == 2
MaxTokens == 9
MaxRevs == 3
MaxSkip == 2
NOut == 2
\* The consumers that share the channel New returns.
NCons == 2
\* The buffer sizes of the source are 40 and 300 (part_003:112-113); the model
\* runs the same code with small buffers.
pageBufferSize == 2
revisionBufferSize == 1

Files == 1..NumFiles

-----------------------------------------------------------------------------
(* Small helpers *)

Last(s) == s[Len(s)]

IsPrefix(s, t) == Len(s) <= Len(t) /\ SubSeq(t, 1, Len(s)) = s

SetMax(S) == CHOOSE x \in S : \A y \in S : y <= x

SetMin(S) == CHOOSE x \in S : \A y \in S : x <= y

Range(s) == {s[i] : i \in DOMAIN s}

-----------------------------------------------------------------------------
(* Errors.  kind is the cause; wrapped says that Wrapf gave it a Cause(). *)

NilErr == [kind |-> "nil", wrapped |-> FALSE]
EOF == [kind |-> "EOF", wrapped |-> FALSE]
ReadErr == [kind |-> "read error", wrapped |-> FALSE]
errInvalidXML == [kind |-> "Invalid XML", wrapped |-> FALSE]
DecodeErr == [kind |-> "decode error", wrapped |-> FALSE]
TimeErr == [kind |-> "parsing time", wrapped |-> FALSE]
ctxErr == [kind |-> "context canceled", wrapped |-> FALSE]

Wrapf(err) == [err EXCEPT !.wrapped = TRUE]

-----------------------------------------------------------------------------
(* The inputs: tokens of a dump file, as the loop of run sees them.  A     *)
(* title, id or revision token stands for the start element and the        *)
(* subtree DecodeElement consumes with it; ok = FALSE is a subtree that     *)
(* DecodeElement rejects.                                                   *)

ShaA == "phoiac9h4m842xq45sp7s6u21eteeq1"
ShaB == "0k1zrx7i3tqg12ozroiyzvwdfur6wd4"
ShaShort == "abcde"

GoodTime == "2001-01-15T13:15:00Z"
BadTime == "2001-01-15 13:15"

Titles == {"HG", "Ni"}
PageIDs == {42, 43, 100}

NoRev == [ID |-> 0, Timestamp |-> "", UserID |-> 0, Text |-> "", SHA1 |-> ""]

Tok(ev, title, id, rev, ok) ==
    [ev |-> ev, title |-> title, id |-> id, rev |-> rev, ok |-> ok]

\* The revision elements a file may hold at position n (revision ids are unique):
\* two hashes of 31 characters, one by a bot, a short hash, and a timestamp
\* that does not parse.
RevInput(n, ts, u, h) == [ID |-> n, Timestamp |-> ts, UserID |-> u, Text |-> "hello", SHA1 |-> h]

RevInputs(n) ==
    {RevInput(n, GoodTime, 0, ShaA), RevInput(n, GoodTime, 7, ShaB),
     RevInput(n, GoodTime, 0, ShaShort), RevInput(n, BadTime, 0, ShaA)}

Tokens(n) ==
    {Tok("page start", "", 0, NoRev, TRUE),
     Tok("page end", "", 0, NoRev, TRUE),
     Tok("", "", 0, NoRev, TRUE)}
    \cup {Tok("title start", t, 0, NoRev, TRUE) : t \in Titles}
    \cup {Tok("title start", "", 0, NoRev, FALSE)}
    \cup {Tok("id start", "", p, NoRev, TRUE) : p \in PageIDs}
    \cup {Tok("id start", "", 0, NoRev, FALSE)}
    \cup {Tok("revision start", "", 0, r, TRUE) : r \in RevInputs(n)}
    \cup {Tok("revision start", "", 0, NoRev, FALSE)}

\* The file of the fan-out specification: two articles, the first with three
\* revisions, the third a revert to the first, and the second with none.  Any
\* read of it may fail (DecTokenErr).
FanFile ==
    <<Tok("page start", "", 0, NoRev, TRUE),
      Tok("title start", "HG", 0, NoRev, TRUE),
      Tok("id start", "", 42, NoRev, TRUE),
      Tok("revision start", "", 0, RevInput(4, GoodTime, 0, ShaA), TRUE),
      Tok("revision start", "", 0, RevInput(5, GoodTime, 7, ShaB), TRUE),
      Tok("revision start", "", 0, RevInput(6, GoodTime, 0, ShaA), TRUE),
      Tok("page end", "", 0, NoRev, TRUE),
      Tok("page start", "", 0, NoRev, TRUE),
      Tok("title start", "Ni", 0, NoRev, TRUE),
      Tok("id start", "", 43, NoRev, TRUE),
      Tok("page end", "", 0, NoRev, TRUE)>>

FanTokens(n) == {FanFile[n]}

xmlEvent(t) == t.ev

\* The injected lookups.
article2Topic == (42 :> 9) @@ (43 :> 8)

Article2TopicID(articleID) ==
    IF articleID \in DOMAIN article2Topic
    THEN [topicID |-> article2Topic[articleID], ok |-> TRUE]
    ELSE [topicID |-> 0, ok |-> FALSE]

ID2Bot(userID) == [ok |-> userID \in {7}]

\* time.Parse with layout "2006-01-02T15:04:05Z"
timeParse(s) ==
    IF s = GoodTime
    THEN [t |-> <<2001, 1, 15, 13, 15, 0>>, err |-> NilErr]
    ELSE [t |-> <<>>, err |-> TimeErr]

-----------------------------------------------------------------------------
(* Values sent on the channels *)

NoPage == [PageID |-> 0, Title |-> "", Abstract |-> "", TopicID |-> 0, Revisions |-> 0]

NoRevision ==
    [ID |-> 0, UserID |-> 0, IsBot |-> FALSE, Text |-> "", SHA1 |-> "",
     IsRevert |-> 0, Timestamp |-> <<>>]

EvolvingPage(pageID, title, abstract, topicID, revisions) ==
    [PageID |-> pageID, Title |-> title, Abstract |-> abstract, TopicID |-> topicID,
     Revisions |-> revisions]

Revision(id, userID, isBot, text, sha1, isRevert, timestamp) ==
    [ID |-> id, UserID |-> userID, IsBot |-> isBot, Text |-> text, SHA1 |-> sha1,
     IsRevert |-> isRevert, Timestamp |-> timestamp]

\* make(chan T, n) by goroutine who
MakeChan(who) == [buf |-> <<>>, closed |-> FALSE, maker |-> who, closer |-> <<"none", 0>>]

-----------------------------------------------------------------------------
(* The builders.  A builder value is its dynamic type (state) and the      *)
(* fields of bSetted, which embeds bTitled, bStarted and bBase.            *)

Builder(state, title, revisions, count, sha12serial) ==
    [state |-> state, Title |-> title, Revisions |-> revisions,
     RevisionCount |-> count, SHA12SerialID |-> sha12serial]

nilBuilder == Builder("nil", "", 0, 0, <<>>)

\* What a method of a builder does up to its return or its select:
\* be, err: its results; close: the revisions channel it closes (0: none);
\* make: it created the revisions channel; sel: the select it stops at, with
\* the page or revision to send; n: the tokens it made the Decoder read.
Result(be, err, close) ==
    [be |-> be, err |-> err, close |-> close, make |-> FALSE, sel |-> "none",
     page |-> NoPage, rev |-> NoRevision, n |-> 0]

bBase_New(bs) == Builder("bBase", "", 0, 0, <<>>)

bBase_NewPage(bs) == Result(Builder("bStarted", "", 0, 0, <<>>), NilErr, 0)

bBase_SetPageTitle(bs, t) == Result(nilBuilder, Wrapf(errInvalidXML), 0)

bBase_SetPageID(bs, t) == Result(nilBuilder, Wrapf(errInvalidXML), 0)

bBase_NewRevision(bs, t) == Result(nilBuilder, Wrapf(errInvalidXML), 0)

bBase_ClosePage(bs) == Result(nilBuilder, Wrapf(errInvalidXML), 0)

bStarted_NewPage(bs) == Result(nilBuilder, Wrapf(errInvalidXML), 0)

bStarted_SetPageTitle(bs, t) ==
    IF ~t.ok
    THEN Result(nilBuilder, Wrapf(DecodeErr), 0)
    ELSE Result(Builder("bTitled", t.title, 0, 0, <<>>), NilErr, 0)

bStarted_SetPageID(bs, t) == Result(nilBuilder, Wrapf(errInvalidXML), 0)

bStarted_ClosePage(bs) == Result(nilBuilder, Wrapf(errInvalidXML), 0)

bTitled_SetPageTitle(bs, t) == Result(nilBuilder, Wrapf(errInvalidXML), 0)

\* xml.Decoder.Skip on the tokens that follow: reads up to and including the end
\* element that closes the element the decoder is in (the page); a failing read
\* (here: the tokens run out) is its error.
RECURSIVE SkipFrom(_, _, _)
SkipFrom(toks, i, depth) ==
    IF i > Len(toks)
    THEN [n |-> Len(toks), err |-> ReadErr]
    ELSE IF toks[i].ev = "page end"
         THEN IF depth = 0
              THEN [n |-> i, err |-> NilErr]
              ELSE SkipFrom(toks, i + 1, depth - 1)
         ELSE IF toks[i].ev = "page start"
              THEN SkipFrom(toks, i + 1, depth + 1)
              ELSE SkipFrom(toks, i + 1, depth)

Skip(toks) == SkipFrom(toks, 1, 0)

\* A variant of bTitled.SetPageID that goes back to the base state when the
\* lookup fails, without Decoder.Skip().
bTitled_SetPageID_NoSkip(bs, t, newc, toks) ==
    IF ~t.ok
    THEN Result(nilBuilder, Wrapf(DecodeErr), 0)
    ELSE LET pageID == t.id
             look == Article2TopicID(pageID)
         IN  IF look.ok
             THEN [Result(Builder("bSetted", bs.Title, newc, 0, <<>>), NilErr, 0)
                     EXCEPT !.make = TRUE, !.sel = "page",
                            !.page = EvolvingPage(pageID, bs.Title, "", look.topicID, newc)]
             ELSE Result(bBase_New(bs), NilErr, 0)

\* newc is the channel make returns; toks are the tokens that follow t in the file.
\* A variant of bTitled.SetPageID that publishes the page whatever the lookup
\* says; C8 must tell it from the code.
bTitled_SetPageID_NoLookup(bs, t, newc, toks) ==
    IF ~t.ok
    THEN Result(nilBuilder, Wrapf(DecodeErr), 0)
    ELSE LET pageID == t.id
             look == Article2TopicID(pageID)
         IN  [Result(Builder("bSetted", bs.Title, newc, 0, <<>>), NilErr, 0)
                EXCEPT !.make = TRUE, !.sel = "page",
                       !.page = EvolvingPage(pageID, bs.Title, "", look.topicID, newc)]

\* A variant of bTitled.SetPageID whose bSetted starts with a memory that is not
\* empty, as if a revision of an earlier page were remembered.
bTitled_SetPageID_Remembers(bs, t, newc, toks) ==
    IF ~t.ok
    THEN Result(nilBuilder, Wrapf(DecodeErr), 0)
    ELSE LET pageID == t.id
             look == Article2TopicID(pageID)
         IN  IF look.ok
             THEN [Result(Builder("bSetted", bs.Title, newc, 2, (ShaA :> 0)), NilErr, 0)
                     EXCEPT !.make = TRUE, !.sel = "page",
                            !.page = EvolvingPage(pageID, bs.Title, "", look.topicID, newc)]
             ELSE LET sk == Skip(toks)
                  IN  IF sk.err # NilErr
                      THEN [Result(nilBuilder, Wrapf(sk.err), 0) EXCEPT !.n = sk.n]
                      ELSE [Result(bBase_New(bs), NilErr, 0) EXCEPT !.n = sk.n]

bTitled_SetPageID(bs, t, newc, toks) ==
    IF ~t.ok
    THEN Result(nilBuilder, Wrapf(DecodeErr), 0)
    ELSE LET pageID == t.id
             look == Article2TopicID(pageID)
         IN  IF look.ok
             THEN [Result(Builder("bSetted", bs.Title, newc, 0, <<>>), NilErr, 0)
                     EXCEPT !.make = TRUE, !.sel = "page",
                            !.page = EvolvingPage(pageID, bs.Title, "", look.topicID, newc)]
             ELSE LET sk == Skip(toks)
                  IN  IF sk.err # NilErr
                      THEN [Result(nilBuilder, Wrapf(sk.err), 0) EXCEPT !.n = sk.n]
                      ELSE [Result(bBase_New(bs), NilErr, 0) EXCEPT !.n = sk.n]

\* The select of bTitled.SetPageID when ctx.Done() is taken.
bTitled_SetPageID_Done(bs) == Result(nilBuilder, Wrapf(ctxErr), 0)

bTitled_NewRevision(bs, t) == Result(nilBuilder, Wrapf(errInvalidXML), 0)

bTitled_ClosePage(bs) == Result(nilBuilder, Wrapf(errInvalidXML), 0)

\* A variant of <page> inside a page that starts the next page and leaves the
\* revisions channel of the current one as it is.
bSetted_NewPage_Nested(bs) == Result(Builder("bStarted", "", 0, 0, <<>>), NilErr, 0)

bSetted_NewPage(bs) == Result(nilBuilder, Wrapf(errInvalidXML), bs.Revisions)

bSetted_SetPageID(bs, t) == Result(nilBuilder, Wrapf(errInvalidXML), bs.Revisions)

\* "Calculate reverts" of bSetted.NewRevision: the IsRevert of the revision
\* with hash sha1 and the map after it.  A uint32 is held as the 32-bit integer
\* with the same bits (the integers of TLC are 32 bits wide): a difference that
\* wraps, a value of 2^31 or more, reads as a negative number.
\* Variants of the revert calculation that the claims on IsRevert must tell from
\* the code: a distance that counts the revision itself, a map that remembers
\* a sha1 of any length, and a map that keeps the first serial of a sha1.
CalculateReverts_OffByOne(count, sha12serial, sha1) ==
    LET serialID == count
        isRevert == sha1 \in DOMAIN sha12serial
        oldSerialID == IF isRevert THEN sha12serial[sha1] ELSE 0
    IN  [IsRevert |-> IF isRevert THEN serialID - oldSerialID ELSE 0,
         SHA12SerialID |->
            IF isRevert \/ Len(sha1) = 31
            THEN (sha1 :> serialID) @@ sha12serial
            ELSE sha12serial]

CalculateReverts_AnyLength(count, sha12serial, sha1) ==
    LET serialID == count
        isRevert == sha1 \in DOMAIN sha12serial
        oldSerialID == IF isRevert THEN sha12serial[sha1] ELSE 0
    IN  [IsRevert |-> IF isRevert THEN serialID - (oldSerialID + 1) ELSE 0,
         SHA12SerialID |-> (sha1 :> serialID) @@ sha12serial]

CalculateReverts_KeepFirst(count, sha12serial, sha1) ==
    LET serialID == count
        isRevert == sha1 \in DOMAIN sha12serial
        oldSerialID == IF isRevert THEN sha12serial[sha1] ELSE 0
    IN  [IsRevert |-> IF isRevert THEN serialID - (oldSerialID + 1) ELSE 0,
         SHA12SerialID |->
            IF ~isRevert /\ Len(sha1) = 31
            THEN (sha1 :> serialID) @@ sha12serial
            ELSE sha12serial]

CalculateReverts(count, sha12serial, sha1) ==
    LET serialID == count
        isRevert == sha1 \in DOMAIN sha12serial
        oldSerialID == IF isRevert THEN sha12serial[sha1] ELSE 0
    IN  [IsRevert |-> IF isRevert THEN serialID - (oldSerialID + 1) ELSE 0,
         SHA12SerialID |->
            IF isRevert \/ Len(sha1) = 31
            THEN (sha1 :> serialID) @@ sha12serial
            ELSE sha12serial]

\* A variant of bSetted.NewRevision without the deferred close of the channel.
bSetted_NewRevision_NoDefer(bs, t) ==
    IF ~t.ok
    THEN Result(nilBuilder, Wrapf(DecodeErr), 0)
    ELSE LET r == t.rev
             cr == CalculateReverts(bs.RevisionCount, bs.SHA12SerialID, r.SHA1)
             tp == timeParse(r.Timestamp)
             isBot == ID2Bot(r.UserID).ok
         IN  IF tp.err # NilErr
             THEN Result(nilBuilder, Wrapf(tp.err), 0)
             ELSE [Result([bs EXCEPT !.SHA12SerialID = cr.SHA12SerialID,
                                     !.RevisionCount = @ + 1], NilErr, 0)
                     EXCEPT !.sel = "rev",
                            !.rev = Revision(r.ID, r.UserID, isBot, r.Text, r.SHA1,
                                             cr.IsRevert, tp.t)]

\* bSetted.NewRevision up to its return or its select; the deferred function
\* closes the channel when err is not nil.
bSetted_NewRevision(bs, t) ==
    IF ~t.ok
    THEN Result(nilBuilder, Wrapf(DecodeErr), bs.Revisions)
    ELSE LET r == t.rev
             cr == CalculateReverts(bs.RevisionCount, bs.SHA12SerialID, r.SHA1)
             tp == timeParse(r.Timestamp)
             isBot == ID2Bot(r.UserID).ok
         IN  IF tp.err # NilErr
             THEN Result(nilBuilder, Wrapf(tp.err), bs.Revisions)
             ELSE [Result([bs EXCEPT !.SHA12SerialID = cr.SHA12SerialID,
                                     !.RevisionCount = @ + 1], NilErr, 0)
                     EXCEPT !.sel = "rev",
                            !.rev = Revision(r.ID, r.UserID, isBot, r.Text, r.SHA1,
                                             cr.IsRevert, tp.t)]

\* A variant of the cancelled select that returns without the deferred close.
bSetted_NewRevision_Done_NoClose(bs) == Result(nilBuilder, Wrapf(ctxErr), 0)

\* The select of bSetted.NewRevision when ctx.Done() is taken: err is set and
\* the deferred function closes the channel.
bSetted_NewRevision_Done(bs) == Result(nilBuilder, Wrapf(ctxErr), bs.Revisions)


\* Variants of bSetted.ClosePage: one that closes the channel and stays in the
\* same state, one that goes back to the base state and leaves the channel open.
bSetted_ClosePage_Stay(bs) == Result(bs, NilErr, bs.Revisions)

bSetted_ClosePage_NoClose(bs) == Result(bBase_New(bs), NilErr, 0)

\* </page> with the page set: the channel is closed, back to the base state.
bSetted_ClosePage(bs) == Result(bBase_New(bs), NilErr, bs.Revisions)

\* A variant of the method set in which a <page> after the title starts the
\* page anew instead of being refused.
NewPage_TitledRestarts(b) ==
    CASE b.state = "bBase" -> bBase_NewPage(b)
      [] b.state = "bStarted" -> bStarted_NewPage(b)
      [] b.state = "bTitled" -> bBase_NewPage(b)
      [] b.state = "bSetted" -> bSetted_NewPage(b)

\* The method sets: a type that does not declare a method of the builder
\* interface gets the one of the type it embeds.
NewPage(b) ==
    CASE b.state = "bBase" -> bBase_NewPage(b)
      [] b.state = "bStarted" -> bStarted_NewPage(b)
      [] b.state = "bTitled" -> bStarted_NewPage(b)
      [] b.state = "bSetted" -> bSetted_NewPage(b)

SetPageTitle(b, t) ==
    CASE b.state = "bBase" -> bBase_SetPageTitle(b, t)
      [] b.state = "bStarted" -> bStarted_SetPageTitle(b, t)
      [] b.state = "bTitled" -> bTitled_SetPageTitle(b, t)
      [] b.state = "bSetted" -> bTitled_SetPageTitle(b, t)

SetPageID(b, t, newc, toks) ==
    CASE b.state = "bBase" -> bBase_SetPageID(b, t)
      [] b.state = "bStarted" -> bStarted_SetPageID(b, t)
      [] b.state = "bTitled" -> bTitled_SetPageID(b, t, newc, toks)
      [] b.state = "bSetted" -> bSetted_SetPageID(b, t)

NewRevision(b, t) ==
    CASE b.state = "bBase" -> bBase_NewRevision(b, t)
      [] b.state = "bStarted" -> bBase_NewRevision(b, t)
      [] b.state = "bTitled" -> bTitled_NewRevision(b, t)
      [] b.state = "bSetted" -> bSetted_NewRevision(b, t)

ClosePage(b) ==
    CASE b.state = "bBase" -> bBase_ClosePage(b)
      [] b.state = "bStarted" -> bStarted_ClosePage(b)
      [] b.state = "bTitled" -> bTitled_ClosePage(b)
      [] b.state = "bSetted" -> bSetted_ClosePage(b)

\* The switch of the loop of run.
Dispatch(b, t, newc, toks) ==
    CASE xmlEvent(t) = "page start" -> NewPage(b)
      [] xmlEvent(t) = "title start" -> SetPageTitle(b, t)
      [] xmlEvent(t) = "id start" -> SetPageID(b, t, newc, toks)
      [] xmlEvent(t) = "revision start" -> NewRevision(b, t)
      [] xmlEvent(t) = "page end" -> ClosePage(b)
      [] OTHER -> Result(b, NilErr, 0)

\* defer b.ClosePage() of run: the receiver is the value b has when the defer
\* statement runs, b0 = base.New(); b is the builder at the return.
DeferredClosePage(b0, b) == ClosePage(b0)

\* The switch after the loop of run: the error run returns (b.Wrapf on a nil
\* builder is a nil dereference).
RunErr(b, err) ==
    CASE err = EOF -> [err |-> NilErr, panic |-> ""]
      [] err.wrapped -> [err |-> err, panic |-> ""]
      [] OTHER -> IF b.state = "nil"
                  THEN [err |-> err, panic |-> "nil pointer dereference"]
                  ELSE [err |-> Wrapf(err), panic |-> ""]

-----------------------------------------------------------------------------
(* Channel operations *)

CloseChan(ch, who) == [ch EXCEPT !.closed = TRUE, !.closer = who]

\* close(c) for each c of cs in turn (0: nothing to close), by goroutine who;
\* closing a closed channel panics.
RECURSIVE CloseAll(_, _, _)
CloseAll(chs, cs, who) ==
    IF cs = <<>>
    THEN [chs |-> chs, panic |-> ""]
    ELSE IF Head(cs) = 0
         THEN CloseAll(chs, Tail(cs), who)
         ELSE IF chs[Head(cs)].closed
              THEN [chs |-> chs, panic |-> "close of closed channel"]
              ELSE CloseAll([chs EXCEPT ![Head(cs)] = CloseChan(@, who)], Tail(cs), who)

\* A receive on ch would report the channel closed.
FoundClosed(ch) == ch.closed /\ ch.buf = <<>>

-----------------------------------------------------------------------------
(* The decoder goroutine: run *)

EndTok(e) == Tok(IF e = EOF THEN "#EOF" ELSE "#error", "", 0, NoRev, TRUE)

Count(d, ev) == Cardinality({i \in DOMAIN d : d[i].ev = ev})

\* The files a specification reads: the tokens a file may hold at each position,
\* what may follow the id of a page that is skipped, and the bounds on its
\* length and on its revisions.
Budget(in, d) ==
    /\ Len(d) <= in.maxTokens
    /\ Count(d, "revision start") <= in.maxRevs

\* The tokens Skip may find after the id of a page that is no article.
SkipTokens ==
    {Tok("page start", "", 0, NoRev, TRUE),
     Tok("page end", "", 0, NoRev, TRUE),
     Tok("", "", 0, NoRev, TRUE),
     Tok("revision start", "", 0, RevInput(1, GoodTime, 0, ShaA), TRUE)}

SkipSeqs == UNION {[1..k -> SkipTokens] : k \in 0..MaxSkip}

RunInputs ==
    [tokens |-> [n \in 1..MaxTokens |-> Tokens(n)], skips |-> SkipSeqs,
     maxTokens |-> MaxTokens, maxRevs |-> MaxRevs]

FanInputs ==
    [tokens |-> [n \in 1..Len(FanFile) |-> FanTokens(n)], skips |-> {<<>>},
     maxTokens |-> Len(FanFile), maxRevs |-> Len(FanFile)]

\* run returns: the switch on err after the loop, then the deferred calls.
\* chs are the revisions channels at that point.
RunReturns(f, b, err, chs) ==
    LET re == RunErr(b, err)
        d == DeferredClosePage(bBase_New(b), b)
        cl == CloseAll(chs, <<d.close>>, <<"run", f>>)
    IN  /\ pc' = [pc EXCEPT ![f] = "done"]
        /\ st' = [st EXCEPT ![f] = b]
        /\ ret' = [ret EXCEPT ![f] = re.err]
        /\ revCh' = cl.chs
        /\ panicked' = IF re.panic # "" THEN re.panic ELSE cl.panic

\* One turn of the loop of run: Token() returns t and the switch calls the
\* method of the builder, up to its return or its select.
DecToken(f, in) ==
    /\ panicked = ""
    /\ pc[f] = "token"
    /\ Len(doc[f]) < in.maxTokens
    /\ \E t \in in.tokens[Len(doc[f]) + 1] :
        \E toks \in (IF xmlEvent(t) = "id start" THEN in.skips ELSE {<<>>}) :
        LET who == <<"run", f>>
            r == Dispatch(st[f], t, Len(revCh) + 1, toks)
            made == IF r.make THEN Append(revCh, MakeChan(who)) ELSE revCh
            cl == CloseAll(made, <<r.close>>, who)
        IN  /\ r.n = Len(toks)
            /\ Budget(in, doc[f] \o <<t>> \o toks)
            /\ doc' = [doc EXCEPT ![f] = IF xmlEvent(t) = "" THEN @ ELSE @ \o <<t>> \o toks]
            /\ IF r.make
               THEN /\ origin' = Append(origin, [f |-> f, at |-> Len(doc[f]) + 1, of |-> 0])
                    /\ sent' = Append(sent, <<>>)
                    /\ recv' = Append(recv, <<>>)
               ELSE UNCHANGED <<origin, sent, recv>>
            /\ IF cl.panic # ""
               THEN /\ panicked' = cl.panic
                    /\ revCh' = cl.chs
                    /\ UNCHANGED <<pc, st, pend, ret>>
               ELSE IF r.sel # "none"
               THEN /\ pc' = [pc EXCEPT ![f] = IF r.sel = "page" THEN "sendPage" ELSE "sendRev"]
                    /\ st' = [st EXCEPT ![f] = r.be]
                    /\ pend' = [pend EXCEPT ![f] = [page |-> r.page, rev |-> r.rev]]
                    /\ revCh' = cl.chs
                    /\ UNCHANGED <<ret, panicked>>
               ELSE IF r.err = NilErr
               THEN /\ st' = [st EXCEPT ![f] = r.be]
                    /\ revCh' = cl.chs
                    /\ UNCHANGED <<pc, pend, ret, panicked>>
               ELSE /\ RunReturns(f, r.be, r.err, cl.chs)
                    /\ UNCHANGED pend
    /\ UNCHANGED <<ctxDone, pageCh, pubs, outs, got, fan, cop>>
    /\ UNCHANGED stage

\* Token() fails: io.EOF at the end of the document (no element is open), or
\* an I/O or syntax error anywhere.
DecTokenErr(f) ==
    /\ panicked = ""
    /\ pc[f] = "token"
    /\ \E e \in {EOF, ReadErr} :
        /\ e = EOF => st[f].state = "bBase"
        /\ doc' = [doc EXCEPT ![f] = Append(@, EndTok(e))]
        /\ RunReturns(f, st[f], e, revCh)
    /\ UNCHANGED <<ctxDone, pend, pageCh, origin, pubs, sent, recv, outs, got, fan, cop>>
    /\ UNCHANGED stage

\* The select of bTitled.SetPageID: the send on OutStream
DecSendPage(f) ==
    /\ panicked = ""
    /\ pc[f] = "sendPage"
    /\ IF pageCh[1].closed
       THEN /\ panicked' = "send on closed channel"
            /\ UNCHANGED <<pc, pageCh, pubs>>
       ELSE /\ Len(pageCh[1].buf) < pageBufferSize
            /\ pageCh' = [pageCh EXCEPT ![1].buf = Append(@, pend[f].page)]
            /\ pubs' = Append(pubs, [f |-> f, at |-> Len(doc[f]), page |-> pend[f].page])
            /\ pc' = [pc EXCEPT ![f] = "token"]
            /\ UNCHANGED panicked
    /\ UNCHANGED <<ctxDone, doc, st, pend, ret, revCh, origin, sent, recv, outs, got, fan, cop>>
    /\ UNCHANGED stage

\* The select of bTitled.SetPageID: ctx.Done()
DecPageCtxDone(f) ==
    /\ panicked = ""
    /\ pc[f] = "sendPage"
    /\ ctxDone
    /\ LET r == bTitled_SetPageID_Done(st[f])
       IN  RunReturns(f, r.be, r.err, revCh)
    /\ UNCHANGED <<ctxDone, doc, pend, pageCh, origin, pubs, sent, recv, outs, got, fan, cop>>
    /\ UNCHANGED stage

\* A variant of the send that gives the revision up when the buffer is full
\* instead of waiting for room.
DecSendRev_NoWait(f) ==
    /\ panicked = ""
    /\ pc[f] = "sendRev"
    /\ LET c == st[f].Revisions
           room == Len(revCh[c].buf) < revisionBufferSize
       IN  /\ ~revCh[c].closed
           /\ revCh' = [revCh EXCEPT ![c].buf = IF room THEN Append(@, pend[f].rev) ELSE @]
           /\ sent' = [sent EXCEPT ![c] = IF room THEN Append(@, pend[f].rev) ELSE @]
           /\ pc' = [pc EXCEPT ![f] = "token"]
    /\ UNCHANGED <<ctxDone, panicked, doc, st, pend, ret, pageCh, origin, pubs, recv,
                   outs, got, fan, cop>>
    /\ UNCHANGED stage

\* The select of bSetted.NewRevision: the send on bs.Revisions
DecSendRev(f) ==
    /\ panicked = ""
    /\ pc[f] = "sendRev"
    /\ LET c == st[f].Revisions
       IN  IF revCh[c].closed
           THEN /\ panicked' = "send on closed channel"
                /\ UNCHANGED <<pc, revCh, sent>>
           ELSE /\ Len(revCh[c].buf) < revisionBufferSize
                /\ revCh' = [revCh EXCEPT ![c].buf = Append(@, pend[f].rev)]
                /\ sent' = [sent EXCEPT ![c] = Append(@, pend[f].rev)]
                /\ pc' = [pc EXCEPT ![f] = "token"]
                /\ UNCHANGED panicked
    /\ UNCHANGED <<ctxDone, doc, st, pend, ret, pageCh, origin, pubs, recv, outs, got, fan, cop>>
    /\ UNCHANGED stage

\* The select of bSetted.NewRevision: ctx.Done()
DecRevCtxDone(f) ==
    /\ panicked = ""
    /\ pc[f] = "sendRev"
    /\ ctxDone
    /\ LET r == bSetted_NewRevision_Done(st[f])
           cl == CloseAll(revCh, <<r.close>>, <<"run", f>>)
       IN  IF cl.panic # ""
           THEN /\ panicked' = cl.panic
                /\ UNCHANGED <<pc, st, ret, revCh>>
           ELSE RunReturns(f, r.be, r.err, cl.chs)
    /\ UNCHANGED <<ctxDone, doc, pend, pageCh, origin, pubs, sent, recv, outs, got, fan, cop>>
    /\ UNCHANGED stage

\* The goroutine that called run closes the page channel when run has returned.
CloseOutStream ==
    /\ panicked = ""
    /\ \A f \in Files : pc[f] \in {"idle", "done"}
    /\ \E f \in Files : pc[f] = "done"
    /\ ~pageCh[1].closed
    /\ pageCh' = [pageCh EXCEPT ![1] = CloseChan(@, <<"caller", 0>>)]
    /\ UNCHANGED <<ctxDone, panicked, doc, pc, st, pend, ret, revCh, origin, pubs,
                   sent, recv, outs, got, fan, cop>>
    /\ UNCHANGED stage

-----------------------------------------------------------------------------
(* The environment: the consumers of the outputs and the owner of ctx *)

\* Consumer o receives the next page of its channel.
ConsRecvPage(o) ==
    /\ panicked = ""
    /\ pageCh[outs[o]].buf # <<>>
    /\ got' = [got EXCEPT ![o] = Append(@, Head(pageCh[outs[o]].buf))]
    /\ pageCh' = [pageCh EXCEPT ![outs[o]].buf = Tail(@)]
    /\ UNCHANGED <<ctxDone, panicked, doc, pc, st, pend, ret, revCh, origin, pubs,
                   sent, recv, outs, fan, cop>>
    /\ UNCHANGED stage

\* Consumer o receives the next revision of a page it holds.
ConsRecvRev(o) ==
    /\ panicked = ""
    /\ \E i \in DOMAIN got[o] :
        LET c == got[o][i].Revisions
        IN  /\ revCh[c].buf # <<>>
            /\ recv' = [recv EXCEPT ![c] = Append(@, Head(revCh[c].buf))]
            /\ revCh' = [revCh EXCEPT ![c].buf = Tail(@)]
    /\ UNCHANGED <<ctxDone, panicked, doc, pc, st, pend, ret, pageCh, origin, pubs,
                   sent, outs, got, fan, cop>>
    /\ UNCHANGED stage

Cancel ==
    /\ panicked = ""
    /\ ~ctxDone
    /\ ctxDone' = TRUE
    /\ UNCHANGED <<panicked, doc, pc, st, pend, ret, pageCh, revCh, origin, pubs,
                   sent, recv, outs, got, fan, cop>>
    /\ UNCHANGED stage

-----------------------------------------------------------------------------
(* FanOut: the coordinator fanOutPages and the copiers fanOutRevisions *)

\* rand.Perm(n), on the indices 1..n
Perms(n) == {p \in [1..n -> 1..n] : \A i, j \in 1..n : p[i] = p[j] => i = j}

\* out1, out2, out3 := next(), next(), next(): the first three targets of the
\* permutation are the channels of the select, the others are still waiting.  The
\* select treats its three send cases alike, so the model keeps the set of the
\* targets they hold (a nil channel, which never gets ready, is no member).
\* The variant sets up two send cases only.
FirstSlots_Two(perm) == {perm[k] : k \in 1..(IF Len(perm) < 2 THEN Len(perm) ELSE 2)}

FirstSlots(perm) == {perm[k] : k \in 1..(IF Len(perm) < 3 THEN Len(perm) ELSE 3)}

RestWaiting(perm) == IF Len(perm) > 3 THEN SubSeq(perm, 4, Len(perm)) ELSE <<>>

\* out_k = next() / nextChannel() after the send to target o.  The variant
\* keeps the target that was just served among the cases of the select.
NextSlots_Keep(slots, stillWaiting, o) ==
    slots \cup (IF stillWaiting = <<>> THEN {} ELSE {Head(stillWaiting)})

NextSlots(slots, stillWaiting, o) ==
    (slots \ {o}) \cup (IF stillWaiting = <<>> THEN {} ELSE {Head(stillWaiting)})

NextWaiting(stillWaiting) == IF stillWaiting = <<>> THEN <<>> ELSE Tail(stillWaiting)

\* A variant of the page copy that hands the input page on as it is.
ReplicaPage_Shared(p, revisions, o) == p

\* page = p; page.Revisions = revisions[o]: the copy of p for output o
ReplicaPage(p, revisions, o) == [p EXCEPT !.Revisions = revisions[o]]

fanOff ==
    [pc |-> "off", p |-> NoPage, revisions |-> <<>>, stillWaiting |-> <<>>,
     slots |-> {}, iter |-> 0]

\* The result of FanOut(ctx, in, n) with in = pageCh[1]: n = 1 returns in; else n
\* new page channels and the goroutine fanOutPages.
FanOut(in, n) ==
    IF n = 1
    THEN [out |-> <<1>>, chans |-> <<in>>, fan |-> fanOff]
    ELSE [out |-> [i \in 1..n |-> i + 1],
          chans |-> <<in>> \o [i \in 1..n |-> MakeChan(<<"FanOut", 0>>)],
          fan |-> [fanOff EXCEPT !.pc = "recv"]]

\* fanOutPages returns: the deferred function closes every output.
FanReturns ==
    LET cl == CloseAll(pageCh, outs, <<"fanOutPages", 0>>)
    IN  /\ pageCh' = cl.chs
        /\ panicked' = cl.panic
        /\ fan' = [fan EXCEPT !.pc = "done"]

\* case p, ok = <-in with ok: the replicas of p.Revisions are made, their copier
\* is started and the first three sends are set up.
FanTakePage ==
    /\ panicked = ""
    /\ fan.pc = "recv"
    /\ pageCh[1].buf # <<>>
    /\ \E perm \in Perms(Len(outs)) :
        LET p == Head(pageCh[1].buf)
            n == Len(outs)
            revisions == [i \in 1..n |-> Len(revCh) + i]
        IN  /\ pageCh' = [pageCh EXCEPT ![1].buf = Tail(@)]
            /\ revCh' = revCh \o [i \in 1..n |-> MakeChan(<<"fanOutPages", 0>>)]
            /\ origin' = origin \o [i \in 1..n |-> [f |-> 0, at |-> 0, of |-> p.Revisions]]
            /\ sent' = sent \o [i \in 1..n |-> <<>>]
            /\ recv' = recv \o [i \in 1..n |-> <<>>]
            /\ cop' = Append(cop, [pc |-> "recv", in |-> p.Revisions, out |-> revisions,
                                   r |-> NoRevision, stillWaiting |-> <<>>,
                                   slots |-> {}, iter |-> 0])
            /\ fan' = [pc |-> "send", p |-> p, revisions |-> revisions,
                       stillWaiting |-> RestWaiting(perm), slots |-> FirstSlots(perm),
                       iter |-> n]
    /\ UNCHANGED <<ctxDone, panicked, doc, pc, st, pend, ret, pubs, outs, got>>
    /\ UNCHANGED stage

\* case p, ok = <-in with !ok
FanInClosed ==
    /\ panicked = ""
    /\ fan.pc = "recv"
    /\ FoundClosed(pageCh[1])
    /\ FanReturns
    /\ UNCHANGED <<ctxDone, doc, pc, st, pend, ret, revCh, origin, pubs, sent, recv,
                   outs, got, cop>>
    /\ UNCHANGED stage

\* case <-ctx.Done() of either select of fanOutPages
FanCtxDone ==
    /\ panicked = ""
    /\ fan.pc \in {"recv", "send"}
    /\ ctxDone
    /\ FanReturns
    /\ UNCHANGED <<ctxDone, doc, pc, st, pend, ret, revCh, origin, pubs, sent, recv,
                   outs, got, cop>>
    /\ UNCHANGED stage

\* A variant of the send loop that drops the copy for an output whose buffer is
\* full instead of waiting for room.
FanSend_Drop(o) ==
    /\ panicked = ""
    /\ fan.pc = "send"
    /\ o \in fan.slots
    /\ LET page == ReplicaPage(fan.p, fan.revisions, o)
       IN  IF pageCh[outs[o]].closed
           THEN /\ panicked' = "send on closed channel"
                /\ UNCHANGED <<pageCh, fan>>
           ELSE /\ pageCh' = IF Len(pageCh[outs[o]].buf) < pageBufferSize
                             THEN [pageCh EXCEPT ![outs[o]].buf = Append(@, page)]
                             ELSE pageCh
                /\ fan' = [fan EXCEPT !.slots = NextSlots(fan.slots, fan.stillWaiting, o),
                                      !.stillWaiting = NextWaiting(fan.stillWaiting),
                                      !.iter = @ - 1,
                                      !.pc = IF fan.iter = 1 THEN "recv" ELSE "send"]
                /\ UNCHANGED panicked
    /\ UNCHANGED <<ctxDone, doc, pc, st, pend, ret, revCh, origin, pubs, sent, recv,
                   outs, got, cop>>
    /\ UNCHANGED stage

\* A variant of the send loop that serves its targets one after the other, the
\* lowest output first, as a plain loop over the outputs would.
FanSend_InTurn(o) ==
    /\ panicked = ""
    /\ fan.pc = "send"
    /\ o \in fan.slots
    /\ \A o2 \in fan.slots : o <= o2
    /\ LET page == ReplicaPage(fan.p, fan.revisions, o)
       IN  IF pageCh[outs[o]].closed
           THEN /\ panicked' = "send on closed channel"
                /\ UNCHANGED <<pageCh, fan>>
           ELSE /\ Len(pageCh[outs[o]].buf) < pageBufferSize
                /\ pageCh' = [pageCh EXCEPT ![outs[o]].buf = Append(@, page)]
                /\ fan' = [fan EXCEPT !.slots = NextSlots(fan.slots, fan.stillWaiting, o),
                                      !.stillWaiting = NextWaiting(fan.stillWaiting),
                                      !.iter = @ - 1,
                                      !.pc = IF fan.iter = 1 THEN "recv" ELSE "send"]
                /\ UNCHANGED panicked
    /\ UNCHANGED <<ctxDone, doc, pc, st, pend, ret, revCh, origin, pubs, sent, recv,
                   outs, got, cop>>
    /\ UNCHANGED stage

\* case out_k <- page_k of the send loop, out_k being output o
FanSend(o) ==
    /\ panicked = ""
    /\ fan.pc = "send"
    /\ o \in fan.slots
    /\ LET page == ReplicaPage(fan.p, fan.revisions, o)
       IN  IF pageCh[outs[o]].closed
           THEN /\ panicked' = "send on closed channel"
                /\ UNCHANGED <<pageCh, fan>>
           ELSE /\ Len(pageCh[outs[o]].buf) < pageBufferSize
                /\ pageCh' = [pageCh EXCEPT ![outs[o]].buf = Append(@, page)]
                /\ fan' = [fan EXCEPT !.slots = NextSlots(fan.slots, fan.stillWaiting, o),
                                      !.stillWaiting = NextWaiting(fan.stillWaiting),
                                      !.iter = @ - 1,
                                      !.pc = IF fan.iter = 1 THEN "recv" ELSE "send"]
                /\ UNCHANGED panicked
    /\ UNCHANGED <<ctxDone, doc, pc, st, pend, ret, revCh, origin, pubs, sent, recv,
                   outs, got, cop>>
    /\ UNCHANGED stage

\* fanOutRevisions returns: the deferred function closes every replica.
CopReturns(c) ==
    LET cl == CloseAll(revCh, cop[c].out, <<"fanOutRevisions", c>>)
    IN  /\ revCh' = cl.chs
        /\ panicked' = cl.panic
        /\ cop' = [cop EXCEPT ![c].pc = "done"]

\* case r, ok = <-in with ok
CopTakeRev(c) ==
    /\ panicked = ""
    /\ cop[c].pc = "recv"
    /\ revCh[cop[c].in].buf # <<>>
    /\ \E perm \in Perms(Len(cop[c].out)) :
        /\ revCh' = [revCh EXCEPT ![cop[c].in].buf = Tail(@)]
        /\ recv' = [recv EXCEPT ![cop[c].in] = Append(@, Head(revCh[cop[c].in].buf))]
        /\ cop' = [cop EXCEPT ![c].pc = "send",
                              ![c].r = Head(revCh[cop[c].in].buf),
                              ![c].stillWaiting = RestWaiting(perm),
                              ![c].slots = FirstSlots(perm),
                              ![c].iter = Len(cop[c].out)]
    /\ UNCHANGED <<ctxDone, panicked, doc, pc, st, pend, ret, pageCh, origin, pubs,
                   sent, outs, got, fan>>
    /\ UNCHANGED stage

\* case r, ok = <-in with !ok
CopInClosed(c) ==
    /\ panicked = ""
    /\ cop[c].pc = "recv"
    /\ FoundClosed(revCh[cop[c].in])
    /\ CopReturns(c)
    /\ UNCHANGED <<ctxDone, doc, pc, st, pend, ret, pageCh, origin, pubs, sent, recv,
                   outs, got, fan>>
    /\ UNCHANGED stage

\* A variant of the copier that looks at ctx.Done() only while it waits for
\* the next revision, not in its send loop.
CopCtxDone_RecvOnly(c) ==
    /\ panicked = ""
    /\ cop[c].pc = "recv"
    /\ ctxDone
    /\ CopReturns(c)
    /\ UNCHANGED <<ctxDone, doc, pc, st, pend, ret, pageCh, origin, pubs, sent, recv,
                   outs, got, fan>>
    /\ UNCHANGED stage

\* case <-ctx.Done() of either select of fanOutRevisions
CopCtxDone(c) ==
    /\ panicked = ""
    /\ cop[c].pc \in {"recv", "send"}
    /\ ctxDone
    /\ CopReturns(c)
    /\ UNCHANGED <<ctxDone, doc, pc, st, pend, ret, pageCh, origin, pubs, sent, recv,
                   outs, got, fan>>
    /\ UNCHANGED stage

\* case out_k <- r of the send loop, out_k being replica o
CopSend(c, o) ==
    /\ panicked = ""
    /\ cop[c].pc = "send"
    /\ o \in cop[c].slots
    /\ LET ch == cop[c].out[o]
       IN  IF revCh[ch].closed
           THEN /\ panicked' = "send on closed channel"
                /\ UNCHANGED <<revCh, sent, cop>>
           ELSE /\ Len(revCh[ch].buf) < revisionBufferSize
                /\ revCh' = [revCh EXCEPT ![ch].buf = Append(@, cop[c].r)]
                /\ sent' = [sent EXCEPT ![ch] = Append(@, cop[c].r)]
                /\ cop' = [cop EXCEPT
                             ![c].slots = NextSlots(cop[c].slots, cop[c].stillWaiting, o),
                             ![c].stillWaiting = NextWaiting(cop[c].stillWaiting),
                             ![c].iter = @ - 1,
                             ![c].pc = IF cop[c].iter = 1 THEN "recv" ELSE "send"]
                /\ UNCHANGED panicked
    /\ UNCHANGED <<ctxDone, doc, pc, st, pend, ret, pageCh, origin, pubs, recv,
                   outs, got, fan>>
    /\ UNCHANGED stage

-----------------------------------------------------------------------------
(* New: the orchestrator, the decoder tasks and the latch fail *)

OpenErr == [kind |-> "open error", wrapped |-> FALSE]

SetupErr == [kind |-> "setup error", wrapped |-> FALSE]

LookupErr == [kind |-> "lookup error", wrapped |-> FALSE]

\* fail(err) of ctxutils.WithFail, given the stored error l and the state of the
\* context: the first error that is not nil is stored and cancels the context;
\* the stored error is what fail returns.
Fail(l, done, err) ==
    IF err # NilErr /\ l = NilErr
    THEN [latch |-> err, ctxDone |-> TRUE]
    ELSE [latch |-> l, ctxDone |-> done]

\* The files one dump file may be: one article with one revision or none, then
\* the end of the input or one more </page>; any read may fail (DecTokenErr).
NewFile ==
    <<{Tok("page start", "", 0, NoRev, TRUE)},
      {Tok("title start", "HG", 0, NoRev, TRUE)},
      {Tok("id start", "", 42, NoRev, TRUE)},
      {Tok("revision start", "", 0, RevInput(4, GoodTime, 0, ShaA), TRUE),
       Tok("page end", "", 0, NoRev, TRUE)},
      {Tok("page end", "", 0, NoRev, TRUE)}>>

NewInputs ==
    [tokens |-> NewFile, skips |-> {<<>>},
     maxTokens |-> Len(NewFile), maxRevs |-> Len(NewFile)]

orchOff ==
    [pc |-> "off", next |-> 0, r |-> 0, err |-> NilErr, restrict |-> FALSE, files |-> 0]

\* r, err = it(ctx): the next dump file, an error, or io.EOF after the last of
\* the files of the dump; with restrict, io.EOF after the first call.
ItOutcomes(next, restrict, files) ==
    IF next > files \/ (restrict /\ next > 1)
    THEN {[r |-> 0, err |-> EOF]}
    ELSE {[r |-> next, err |-> NilErr], [r |-> 0, err |-> OpenErr]}

\* The decoder tasks that hold a slot of the sized wait group.
RunningTasks == {f \in Files : pc[f] \notin {"idle", "exited"}}

\* if err != io.EOF { fail(err) } after the loop.  The variant reports the end
\* of the iteration as well.
OrchReports_Always(err) == TRUE

OrchReports(err) == err # EOF

\* A variant of the task that keeps the error of its file to itself.
TaskReports_Never(err) == FALSE

\* if err != nil { fail(err) } of a decoder task.
TaskReports(err) == err # NilErr

OrchOpen ==
    /\ panicked = ""
    /\ orch.pc = "open"
    /\ \E o \in ItOutcomes(orch.next, orch.restrict, orch.files) :
        /\ orch' = [orch EXCEPT !.pc = IF o.err = NilErr THEN "add" ELSE "after",
                                !.next = IF o.err = NilErr THEN @ + 1 ELSE @,
                                !.r = o.r, !.err = o.err]
        /\ readers' = IF o.err = NilErr THEN [readers EXCEPT ![o.r] = "open"] ELSE readers
    /\ UNCHANGED <<ctxDone, panicked, doc, pc, st, pend, ret, pageCh, revCh, origin,
                   pubs, sent, recv, outs, got, fan, cop, latch, wrk, drn, looked>>

\* A variant of the loop that starts the decoder task without a slot.
OrchAdd_NoSlot ==
    /\ panicked = ""
    /\ orch.pc = "add"
    /\ pc' = [pc EXCEPT ![orch.r] = "token"]
    /\ orch' = [orch EXCEPT !.pc = "open"]
    /\ UNCHANGED <<ctxDone, panicked, doc, st, pend, ret, pageCh, revCh, origin,
                   pubs, sent, recv, outs, got, fan, cop, latch, wrk, drn, looked>>
    /\ UNCHANGED readers

\* wg.AddWithContext(ctx) gets a slot: the decoder task of the file starts.
OrchAdd ==
    /\ panicked = ""
    /\ orch.pc = "add"
    /\ Cardinality(RunningTasks) < pageBufferSize
    /\ pc' = [pc EXCEPT ![orch.r] = "token"]
    /\ orch' = [orch EXCEPT !.pc = "open"]
    /\ UNCHANGED <<ctxDone, panicked, doc, st, pend, ret, pageCh, revCh, origin,
                   pubs, sent, recv, outs, got, fan, cop, latch, wrk, drn, looked>>
    /\ UNCHANGED readers

\* r.Close(): closing a reader that is not open is counted as a fault.
CloseReader(rs, f) ==
    [rs EXCEPT ![f] = IF @ = "open" THEN "closed" ELSE "closed again"]

\* A variant of the failed acquisition that leaves the loop without r.Close().
OrchAddCtxDone_NoClose ==
    /\ panicked = ""
    /\ orch.pc = "add"
    /\ ctxDone
    /\ orch' = [orch EXCEPT !.pc = "after", !.err = ctxErr]
    /\ UNCHANGED readers
    /\ UNCHANGED <<ctxDone, panicked, doc, pc, st, pend, ret, pageCh, revCh, origin,
                   pubs, sent, recv, outs, got, fan, cop, latch, wrk, drn, looked>>

\* wg.AddWithContext(ctx) fails: ctx is done, the file is closed, the loop ends.
OrchAddCtxDone ==
    /\ panicked = ""
    /\ orch.pc = "add"
    /\ ctxDone
    /\ orch' = [orch EXCEPT !.pc = "after", !.err = ctxErr]
    /\ readers' = CloseReader(readers, orch.r)
    /\ UNCHANGED <<ctxDone, panicked, doc, pc, st, pend, ret, pageCh, revCh, origin,
                   pubs, sent, recv, outs, got, fan, cop, latch, wrk, drn, looked>>

\* After the loop: the error that ended it is reported, but for io.EOF.
OrchAfter ==
    /\ panicked = ""
    /\ orch.pc = "after"
    /\ LET fl == Fail(latch, ctxDone, IF OrchReports(orch.err) THEN orch.err ELSE NilErr)
       IN  /\ latch' = fl.latch
           /\ ctxDone' = fl.ctxDone
    /\ orch' = [orch EXCEPT !.pc = "wait"]
    /\ UNCHANGED <<panicked, doc, pc, st, pend, ret, pageCh, revCh, origin,
                   pubs, sent, recv, outs, got, fan, cop, wrk, drn, looked>>
    /\ UNCHANGED readers

\* A variant of the end of the orchestrator that closes simplePages without
\* waiting for the decoder tasks.
OrchWait_NoWait ==
    /\ panicked = ""
    /\ orch.pc = "wait"
    /\ LET cl == CloseAll(pageCh, <<1>>, <<"New", 0>>)
       IN  /\ pageCh' = cl.chs
           /\ panicked' = cl.panic
    /\ orch' = [orch EXCEPT !.pc = "done"]
    /\ UNCHANGED <<ctxDone, doc, pc, st, pend, ret, revCh, origin,
                   pubs, sent, recv, outs, got, fan, cop, latch, wrk, drn, looked>>
    /\ UNCHANGED readers

\* wg.Wait() returns and the deferred close(simplePages) runs.
OrchWait ==
    /\ panicked = ""
    /\ orch.pc = "wait"
    /\ RunningTasks = {}
    /\ LET cl == CloseAll(pageCh, <<1>>, <<"New", 0>>)
       IN  /\ pageCh' = cl.chs
           /\ panicked' = cl.panic
    /\ orch' = [orch EXCEPT !.pc = "done"]
    /\ UNCHANGED <<ctxDone, doc, pc, st, pend, ret, revCh, origin,
                   pubs, sent, recv, outs, got, fan, cop, latch, wrk, drn, looked>>
    /\ UNCHANGED readers

\* run has returned in the task of file f: its error is reported, the file is
\* closed and the slot is given back (wg.Done).
TaskExit(f) ==
    /\ panicked = ""
    /\ orch.pc # "off"
    /\ pc[f] = "done"
    /\ LET fl == Fail(latch, ctxDone, IF TaskReports(ret[f]) THEN ret[f] ELSE NilErr)
       IN  /\ latch' = fl.latch
           /\ ctxDone' = fl.ctxDone
    /\ pc' = [pc EXCEPT ![f] = "exited"]
    /\ readers' = CloseReader(readers, f)
    /\ UNCHANGED <<panicked, doc, st, pend, ret, pageCh, revCh, origin,
                   pubs, sent, recv, outs, got, fan, cop, orch, wrk, drn, looked>>

Orchestrator ==
    \/ OrchOpen
    \/ OrchAdd
    \/ OrchAddCtxDone
    \/ OrchAfter
    \/ OrchWait

-----------------------------------------------------------------------------
(* completeInfo: the workers, the drain helpers and the close of results *)

AbstractIDs == {42, 43}

\* The titles that are redirects to page 43 whenever they are looked up.
Redirects == {"Ni"}

\* The titles that are found as page 42 whenever they are looked up.
Articles == {"Go"}

\* wikiPage.From(ctx, title): an error, or the id and the abstract of the page the
\* title leads to, which is another page when the title is a redirect.
WikiPageFrom(title) ==
    IF title \in Redirects
    THEN {[ID |-> 43, Abstract |-> "abstract", err |-> NilErr]}
    ELSE IF title \in Articles
    THEN {[ID |-> 42, Abstract |-> "abstract", err |-> NilErr]}
    ELSE {[ID |-> i, Abstract |-> "abstract", err |-> NilErr] : i \in AbstractIDs}
         \cup {[ID |-> 0, Abstract |-> "", err |-> LookupErr]}

\* A variant of the switch that filters only on a failed query.
Filtered_ErrOnly(p, wp) == wp.err # NilErr

\* The switch of the worker: the page is filtered when the query failed or
\* came back with another id.
Filtered(p, wp) == wp.err # NilErr \/ p.PageID # wp.ID

\* p.Abstract = wp.Abstract
Enriched(p, wp) == [p EXCEPT !.Abstract = wp.Abstract]

\* for p := range pages, with a page: the query, then either emptyRevisions and
\* the next turn, or the select that sends p.
WrkTake(w) ==
    /\ panicked = ""
    /\ wrk[w].pc = "recv"
    /\ pageCh[1].buf # <<>>
    /\ LET p == Head(pageCh[1].buf)
       IN  \E wp \in WikiPageFrom(p.Title) :
            /\ looked' = Append(looked, [page |-> p, wp |-> wp])
            /\ IF Filtered(p, wp)
               THEN /\ drn' = Append(drn, [ch |-> p.Revisions, pc |-> "run"])
                    /\ UNCHANGED wrk
               ELSE /\ wrk' = [wrk EXCEPT ![w] = [pc |-> "send", p |-> Enriched(p, wp)]]
                    /\ UNCHANGED drn
    /\ pageCh' = [pageCh EXCEPT ![1].buf = Tail(@)]
    /\ UNCHANGED <<ctxDone, panicked, doc, pc, st, pend, ret, revCh, origin,
                   pubs, sent, recv, outs, got, fan, cop, orch, latch>>
    /\ UNCHANGED readers

\* for p := range pages ends: pages is closed and empty.
WrkInClosed(w) ==
    /\ panicked = ""
    /\ wrk[w].pc = "recv"
    /\ FoundClosed(pageCh[1])
    /\ wrk' = [wrk EXCEPT ![w] = [pc |-> "done", p |-> NoPage]]
    /\ UNCHANGED <<ctxDone, panicked, doc, pc, st, pend, ret, pageCh, revCh, origin,
                   pubs, sent, recv, outs, got, fan, cop, orch, latch, drn, looked>>
    /\ UNCHANGED readers

\* case results <- p
WrkSend(w) ==
    /\ panicked = ""
    /\ wrk[w].pc = "send"
    /\ IF pageCh[2].closed
       THEN /\ panicked' = "send on closed channel"
            /\ UNCHANGED <<pageCh, wrk>>
       ELSE /\ Len(pageCh[2].buf) < pageBufferSize
            /\ pageCh' = [pageCh EXCEPT ![2].buf = Append(@, wrk[w].p)]
            /\ wrk' = [wrk EXCEPT ![w] = [pc |-> "recv", p |-> NoPage]]
            /\ UNCHANGED panicked
    /\ UNCHANGED <<ctxDone, doc, pc, st, pend, ret, revCh, origin,
                   pubs, sent, recv, outs, got, fan, cop, orch, latch, drn, looked>>
    /\ UNCHANGED readers

\* case <-ctx.Done(): the worker returns, the page it holds is dropped.
WrkCtxDone(w) ==
    /\ panicked = ""
    /\ wrk[w].pc = "send"
    /\ ctxDone
    /\ wrk' = [wrk EXCEPT ![w].pc = "done"]
    /\ UNCHANGED <<ctxDone, panicked, doc, pc, st, pend, ret, pageCh, revCh, origin,
                   pubs, sent, recv, outs, got, fan, cop, orch, latch, drn, looked>>
    /\ UNCHANGED readers

\* A variant of the helper that never reads the channel it was given.
DrnRecv_Never(k) ==
    /\ FALSE
    /\ UNCHANGED vars

\* for range revisions of emptyRevisions, with a revision
DrnRecv(k) ==
    /\ panicked = ""
    /\ drn[k].pc = "run"
    /\ revCh[drn[k].ch].buf # <<>>
    /\ recv' = [recv EXCEPT ![drn[k].ch] = Append(@, Head(revCh[drn[k].ch].buf))]
    /\ revCh' = [revCh EXCEPT ![drn[k].ch].buf = Tail(@)]
    /\ UNCHANGED <<ctxDone, panicked, doc, pc, st, pend, ret, pageCh, origin,
                   pubs, sent, outs, got, fan, cop, orch, latch, wrk, drn, looked>>
    /\ UNCHANGED readers

\* for range revisions ends: the channel is closed and empty.
DrnEnd(k) ==
    /\ panicked = ""
    /\ drn[k].pc = "run"
    /\ FoundClosed(revCh[drn[k].ch])
    /\ drn' = [drn EXCEPT ![k].pc = "done"]
    /\ UNCHANGED <<ctxDone, panicked, doc, pc, st, pend, ret, pageCh, revCh, origin,
                   pubs, sent, recv, outs, got, fan, cop, orch, latch, wrk, looked>>
    /\ UNCHANGED readers

\* A variant of the wait of completeInfo that waits for the workers only, as if
\* the drain helpers were not in the wait group.
EnrClose_WorkersOnly ==
    /\ panicked = ""
    /\ wrk # <<>>
    /\ \A w \in DOMAIN wrk : wrk[w].pc = "done"
    /\ ~pageCh[2].closed
    /\ pageCh' = [pageCh EXCEPT ![2] = CloseChan(@, <<"completeInfo", 0>>)]
    /\ UNCHANGED <<ctxDone, panicked, doc, pc, st, pend, ret, revCh, origin,
                   pubs, sent, recv, outs, got, fan, cop, orch, latch, wrk, drn, looked>>
    /\ UNCHANGED readers

\* wg.Wait() of completeInfo returns (every worker and every drain helper has
\* returned) and the deferred close(results) runs.
EnrClose ==
    /\ panicked = ""
    /\ wrk # <<>>
    /\ \A w \in DOMAIN wrk : wrk[w].pc = "done"
    /\ \A k \in DOMAIN drn : drn[k].pc = "done"
    /\ ~pageCh[2].closed
    /\ pageCh' = [pageCh EXCEPT ![2] = CloseChan(@, <<"completeInfo", 0>>)]
    /\ UNCHANGED <<ctxDone, panicked, doc, pc, st, pend, ret, revCh, origin,
                   pubs, sent, recv, outs, got, fan, cop, orch, latch, wrk, drn, looked>>
    /\ UNCHANGED readers

Worker(w) ==
    \/ WrkTake(w)
    \/ WrkInClosed(w)
    \/ WrkSend(w)
    \/ WrkCtxDone(w)

Drainer(k) ==
    \/ DrnRecv(k)
    \/ DrnEnd(k)

-----------------------------------------------------------------------------
(* The specifications *)

\* run decodes file 1 into OutStream; FanOut(ctx, OutStream, n) gives the
\* channels the consumers read.
Init(n) ==
    /\ ctxDone = FALSE
    /\ panicked = ""
    /\ doc = [f \in Files |-> <<>>]
    /\ pc = [f \in Files |-> IF f = 1 THEN "token" ELSE "idle"]
    /\ st = [f \in Files |-> bBase_New(nilBuilder)]
    /\ pend = [f \in Files |-> [page |-> NoPage, rev |-> NoRevision]]
    /\ ret = [f \in Files |-> NilErr]
    /\ pageCh = FanOut(MakeChan(<<"caller", 0>>), n).chans
    /\ revCh = <<>>
    /\ origin = <<>>
    /\ pubs = <<>>
    /\ sent = <<>>
    /\ recv = <<>>
    /\ outs = FanOut(MakeChan(<<"caller", 0>>), n).out
    /\ got = [o \in 1..n |-> <<>>]
    /\ fan = FanOut(MakeChan(<<"caller", 0>>), n).fan
    /\ cop = <<>>
    /\ orch = orchOff
    /\ latch = NilErr
    /\ wrk = <<>>
    /\ drn = <<>>
    /\ looked = <<>>
    /\ readers = [f \in Files |-> "none"]

Decoder(f, in) ==
    \/ DecToken(f, in)
    \/ DecTokenErr(f)
    \/ DecSendPage(f)
    \/ DecPageCtxDone(f)
    \/ DecSendRev(f)
    \/ DecRevCtxDone(f)

Consumer(o) ==
    \/ ConsRecvPage(o)
    \/ ConsRecvRev(o)

FanOutPages ==
    \/ FanTakePage
    \/ FanInClosed
    \/ FanCtxDone
    \/ \E o \in DOMAIN outs : FanSend(o)

FanOutRevisions(c) ==
    \/ CopTakeRev(c)
    \/ CopInClosed(c)
    \/ CopCtxDone(c)
    \/ \E o \in DOMAIN outs : CopSend(c, o)

\* The decoder of one file and its consumer (the harness of TestRun).
NextRun ==
    \/ \E f \in Files : Decoder(f, RunInputs)
    \/ CloseOutStream
    \/ \E o \in DOMAIN outs : Consumer(o)
    \/ Cancel

SpecRun == Init(1) /\ [][NextRun]_vars

\* The same with FanOut between the decoder and NOut consumers.
NextFan ==
    \/ \E f \in Files : Decoder(f, FanInputs)
    \/ CloseOutStream
    \/ FanOutPages
    \/ \E c \in DOMAIN cop : FanOutRevisions(c)
    \/ \E o \in DOMAIN outs : Consumer(o)
    \/ Cancel

SpecFan == Init(NOut) /\ [][NextFan]_vars

\* FanOut with as many outputs as the select of the send loop has send cases,
\* fewer, and more: n is NOut, NOut + 1 or NOut + 2, the file is one page with revisionBufferSize + 1
\* revisions, and the caller does not cancel.
WideOut == NOut + 2

WideFile ==
    <<{Tok("page start", "", 0, NoRev, TRUE)},
      {Tok("title start", "HG", 0, NoRev, TRUE)},
      {Tok("id start", "", 42, NoRev, TRUE)}>>
    \o [i \in 1..(revisionBufferSize + 1) |->
            {Tok("revision start", "", 0,
                 RevInput(3 + i, GoodTime, 0, IF i % 2 = 1 THEN ShaA ELSE ShaB), TRUE)}]
    \o <<{Tok("page end", "", 0, NoRev, TRUE)}>>

WideInputs ==
    [tokens |-> WideFile, skips |-> {<<>>},
     maxTokens |-> Len(WideFile), maxRevs |-> Len(WideFile)]

NextWide ==
    \/ DecToken(1, WideInputs)
    \/ DecTokenErr(1)
    \/ DecSendPage(1)
    \/ DecSendRev(1)
    \/ CloseOutStream
    \/ FanTakePage
    \/ FanInClosed
    \/ \E o \in DOMAIN outs : FanSend(o)
    \/ \E c \in DOMAIN cop : CopTakeRev(c)
    \/ \E c \in DOMAIN cop : CopInClosed(c)
    \/ \E c \in DOMAIN cop : \E o \in DOMAIN outs : CopSend(c, o)
    \/ \E o \in DOMAIN outs : Consumer(o)

SpecWide == (\E n \in NOut..WideOut : Init(n)) /\ [][NextWide]_vars

\* FanOut when the consumer of one output never reads it, the others read on
\* and the caller does not cancel.  The file has pageBufferSize + 2 pages, the
\* first with revisionBufferSize + 2 revisions, the others with none; with
\* NOut + 2 outputs the file is the one page of WideFile.
SlowOut == 1

SlowPage(id) ==
    <<{Tok("page start", "", 0, NoRev, TRUE)},
      {Tok("title start", "Ni", 0, NoRev, TRUE)},
      {Tok("id start", "", id, NoRev, TRUE)},
      {Tok("page end", "", 0, NoRev, TRUE)}>>

SlowFile ==
    <<{Tok("page start", "", 0, NoRev, TRUE)},
      {Tok("title start", "HG", 0, NoRev, TRUE)},
      {Tok("id start", "", 42, NoRev, TRUE)}>>
    \o [i \in 1..(revisionBufferSize + 2) |->
            {Tok("revision start", "", 0,
                 RevInput(3 + i, GoodTime, 0, IF i % 2 = 1 THEN ShaA ELSE ShaB), TRUE)}]
    \o <<{Tok("page end", "", 0, NoRev, TRUE)}>>
    \o [i \in 1..(4 * (pageBufferSize + 1)) |-> SlowPage(43)[1 + ((i - 1) % 4)]]

SlowInputs ==
    [tokens |-> SlowFile, skips |-> {<<>>},
     maxTokens |-> Len(SlowFile), maxRevs |-> Len(SlowFile)]

SlowInputsFor(n) == IF n > NOut + 1 THEN WideInputs ELSE SlowInputs

NextSlow ==
    \/ DecToken(1, SlowInputsFor(Len(outs)))
    \/ DecTokenErr(1)
    \/ DecSendPage(1)
    \/ DecSendRev(1)
    \/ CloseOutStream
    \/ FanTakePage
    \/ FanInClosed
    \/ \E o \in DOMAIN outs : FanSend(o)
    \/ \E c \in DOMAIN cop : CopTakeRev(c)
    \/ \E c \in DOMAIN cop : CopInClosed(c)
    \/ \E c \in DOMAIN cop : \E o \in DOMAIN outs : CopSend(c, o)
    \/ \E o \in DOMAIN outs \ {SlowOut} : Consumer(o)

SpecSlow == (\E n \in NOut..WideOut : Init(n)) /\ [][NextSlow]_vars

\* A variant of New that, when the setup fails, reports the error and returns
\* the closed channel but starts the orchestrator and the workers all the same.
InitDump_StartsAnyway(restrict, files) ==
    /\ panicked = ""
    /\ doc = [f \in Files |-> <<>>]
    /\ pc = [f \in Files |-> "idle"]
    /\ st = [f \in Files |-> bBase_New(nilBuilder)]
    /\ pend = [f \in Files |-> [page |-> NoPage, rev |-> NoRevision]]
    /\ ret = [f \in Files |-> NilErr]
    /\ revCh = <<>>
    /\ origin = <<>>
    /\ pubs = <<>>
    /\ sent = <<>>
    /\ recv = <<>>
    /\ outs = [o \in 1..NCons |-> 2]
    /\ got = [o \in 1..NCons |-> <<>>]
    /\ fan = fanOff
    /\ cop = <<>>
    /\ drn = <<>>
    /\ looked = <<>>
    /\ readers = [f \in Files |-> "none"]
    /\ orch = [orchOff EXCEPT !.pc = "open", !.next = 1, !.restrict = restrict,
                              !.files = files]
    /\ wrk = [w \in 1..pageBufferSize |-> [pc |-> "recv", p |-> NoPage]]
    /\ \/ /\ ctxDone = FALSE
          /\ latch = NilErr
          /\ pageCh = <<MakeChan(<<"New", 0>>), MakeChan(<<"completeInfo", 0>>)>>
       \/ /\ ctxDone = Fail(NilErr, FALSE, SetupErr).ctxDone
          /\ latch = Fail(NilErr, FALSE, SetupErr).latch
          /\ pageCh = <<MakeChan(<<"New", 0>>),
                        CloseChan(MakeChan(<<"New", 0>>), <<"New", 0>>)>>

\* New(ctx, fail, tmpDir, lang, restrict) with its consumers, which share the
\* channel New returns.  Either the setup fails, and New reports the error and
\* returns a closed channel, or the orchestrator and completeInfo are started.
InitDump(restrict, files) ==
    /\ panicked = ""
    /\ doc = [f \in Files |-> <<>>]
    /\ pc = [f \in Files |-> "idle"]
    /\ st = [f \in Files |-> bBase_New(nilBuilder)]
    /\ pend = [f \in Files |-> [page |-> NoPage, rev |-> NoRevision]]
    /\ ret = [f \in Files |-> NilErr]
    /\ revCh = <<>>
    /\ origin = <<>>
    /\ pubs = <<>>
    /\ sent = <<>>
    /\ recv = <<>>
    /\ outs = [o \in 1..NCons |-> 2]
    /\ got = [o \in 1..NCons |-> <<>>]
    /\ fan = fanOff
    /\ cop = <<>>
    /\ drn = <<>>
    /\ looked = <<>>
    /\ readers = [f \in Files |-> "none"]
    /\ \/ /\ ctxDone = FALSE
          /\ latch = NilErr
          /\ pageCh = <<MakeChan(<<"New", 0>>), MakeChan(<<"completeInfo", 0>>)>>
          /\ orch = [orchOff EXCEPT !.pc = "open", !.next = 1, !.restrict = restrict,
                                    !.files = files]
          /\ wrk = [w \in 1..pageBufferSize |-> [pc |-> "recv", p |-> NoPage]]
       \/ /\ ctxDone = Fail(NilErr, FALSE, SetupErr).ctxDone
          /\ latch = Fail(NilErr, FALSE, SetupErr).latch
          /\ pageCh = <<CloseChan(MakeChan(<<"New", 0>>), <<"New", 0>>),
                        CloseChan(MakeChan(<<"New", 0>>), <<"New", 0>>)>>
          /\ orch = [orchOff EXCEPT !.pc = "done", !.restrict = restrict,
                                    !.files = files]
          /\ wrk = <<>>

InitNew(restrict) == InitDump(restrict, DumpFiles)

\* The steps of the pipeline itself, and those of its consumers.
Pipeline(in) ==
    \/ Orchestrator
    \/ \E f \in Files : Decoder(f, in)
    \/ \E f \in Files : TaskExit(f)
    \/ \E w \in DOMAIN wrk : Worker(w)
    \/ \E k \in DOMAIN drn : Drainer(k)
    \/ EnrClose

NextNew ==
    \/ Pipeline(NewInputs)
    \/ \E o \in DOMAIN outs : Consumer(o)

SpecNew == InitNew(FALSE) /\ [][NextNew]_vars

\* New with restrict on a file of one article that has one revision more than
\* the buffer of a revisions channel holds, with consumers that take pages and
\* never read their revisions; the caller may cancel.
StallFile ==
    <<{Tok("page start", "", 0, NoRev, TRUE)},
      {Tok("title start", "HG", 0, NoRev, TRUE)},
      {Tok("id start", "", 42, NoRev, TRUE)}>>
    \o [i \in 1..(revisionBufferSize + 1) |->
            {Tok("revision start", "", 0, RevInput(3 + i, GoodTime, 0, ShaB), TRUE)}]
    \o <<{Tok("page end", "", 0, NoRev, TRUE)}>>

StallInputs ==
    [tokens |-> StallFile, skips |-> {<<>>},
     maxTokens |-> Len(StallFile), maxRevs |-> Len(StallFile)]

StallSteps ==
    \/ Pipeline(StallInputs)
    \/ \E o \in DOMAIN outs : ConsRecvPage(o)

NextStall ==
    \/ StallSteps
    \/ Cancel

SpecStall == InitNew(TRUE) /\ [][NextStall]_vars

\* New with restrict on a file of 4 * pageBufferSize + 1 pages of one revision:
\* pageBufferSize + 1 pages whose title is a redirect, so that each is filtered
\* and handed to a drain helper, then 3 * pageBufferSize articles whose lookup
\* passes; nobody has read results yet and the caller does not cancel, so that
\* the context is done only once the task of the file has reported an error,
\* when the decoder no longer runs and the orchestrator has left its loop.
LagPages == 4 * pageBufferSize + 1

LagPage(title, n) ==
    <<{Tok("page start", "", 0, NoRev, TRUE)},
      {Tok("title start", title, 0, NoRev, TRUE)},
      {Tok("id start", "", 42, NoRev, TRUE)},
      {Tok("revision start", "", 0, RevInput(n, GoodTime, 0, ShaA), TRUE)},
      {Tok("page end", "", 0, NoRev, TRUE)}>>

LagFile ==
    [i \in 1..(5 * LagPages) |->
        LET n == 1 + ((i - 1) \div 5)
        IN  LagPage(IF n <= pageBufferSize + 1 THEN "Ni" ELSE "Go", n)[1 + ((i - 1) % 5)]]

LagInputs ==
    [tokens |-> LagFile, skips |-> {<<>>},
     maxTokens |-> Len(LagFile), maxRevs |-> Len(LagFile)]

NextLag ==
    \/ OrchOpen
    \/ OrchAdd
    \/ OrchAfter
    \/ OrchWait
    \/ DecToken(1, LagInputs)
    \/ DecTokenErr(1)
    \/ DecSendPage(1)
    \/ DecSendRev(1)
    \/ TaskExit(1)
    \/ \E w \in DOMAIN wrk : Worker(w)
    \/ \E k \in DOMAIN drn : Drainer(k)
    \/ EnrClose

SpecLag == InitNew(TRUE) /\ [][NextLag]_vars

\* New with restrict on a file of two pages: a redirect, which is filtered, with
\* revisionBufferSize + 2 revisions, then an article with one revision.  Nobody
\* reads results and the caller does not cancel.
DrainFile ==
    <<{Tok("page start", "", 0, NoRev, TRUE)},
      {Tok("title start", "Ni", 0, NoRev, TRUE)},
      {Tok("id start", "", 42, NoRev, TRUE)}>>
    \o [i \in 1..(revisionBufferSize + 2) |->
            {Tok("revision start", "", 0,
                 RevInput(3 + i, GoodTime, 0, IF i % 2 = 1 THEN ShaA ELSE ShaB), TRUE)}]
    \o <<{Tok("page end", "", 0, NoRev, TRUE)}>>
    \o LagPage("Go", 9)

DrainInputs ==
    [tokens |-> DrainFile, skips |-> {<<>>},
     maxTokens |-> Len(DrainFile), maxRevs |-> Len(DrainFile)]

NextDrain ==
    \/ OrchOpen
    \/ OrchAdd
    \/ OrchAfter
    \/ OrchWait
    \/ DecToken(1, DrainInputs)
    \/ DecTokenErr(1)
    \/ DecSendPage(1)
    \/ DecSendRev(1)
    \/ TaskExit(1)
    \/ \E w \in DOMAIN wrk : Worker(w)
    \/ \E k \in DOMAIN drn : Drainer(k)
    \/ EnrClose

SpecDrain == InitNew(TRUE) /\ [][NextDrain]_vars

\* New on a dump of NumFiles files, more than the pageBufferSize slots of the
\* sized wait group; each file holds the start of a page and then ends or
\* fails, and no page is made.  Nobody reads results.
SlotFile == <<{Tok("page start", "", 0, NoRev, TRUE)}>>

SlotInputs ==
    [tokens |-> SlotFile, skips |-> {<<>>},
     maxTokens |-> Len(SlotFile), maxRevs |-> Len(SlotFile)]

NextSized ==
    \/ Orchestrator
    \/ \E f \in Files : DecToken(f, SlotInputs)
    \/ \E f \in Files : DecTokenErr(f)
    \/ \E f \in Files : TaskExit(f)
    \/ \E w \in DOMAIN wrk : WrkInClosed(w)
    \/ EnrClose

SpecSized == InitDump(FALSE, NumFiles) /\ [][NextSized]_vars

\* run on a file in which elements that are none of the five may open and close
\* anywhere ("other start", "other end"): the tokens a file may hold at each
\* position.  Every page can be an article; any read may fail.
UnknownLen == 6

UnknownTokens(n) ==
    {Tok("page start", "", 0, NoRev, TRUE),
     Tok("page end", "", 0, NoRev, TRUE),
     Tok("other start", "", 0, NoRev, TRUE),
     Tok("other end", "", 0, NoRev, TRUE),
     Tok("title start", "HG", 0, NoRev, TRUE),
     Tok("id start", "", 42, NoRev, TRUE),
     Tok("revision start", "", 0, RevInput(n, GoodTime, 0, ShaA), TRUE)}

UnknownInputs ==
    [tokens |-> [n \in 1..UnknownLen |-> UnknownTokens(n)], skips |-> {<<>>},
     maxTokens |-> UnknownLen, maxRevs |-> UnknownLen]

NextUnknown ==
    \/ DecToken(1, UnknownInputs)
    \/ DecTokenErr(1)
    \/ DecSendPage(1)
    \/ DecSendRev(1)
    \/ CloseOutStream
    \/ \E o \in DOMAIN outs : Consumer(o)

SpecUnknown == Init(1) /\ [][NextUnknown]_vars

\* New with restrict (one dump file) when the caller may cancel ctx at any moment.
NextNewCancel ==
    \/ Pipeline(NewInputs)
    \/ \E o \in DOMAIN outs : Consumer(o)
    \/ Cancel

SpecNewCancel == InitNew(TRUE) /\ [][NextNewCancel]_vars

\* The goroutines of FanOut keep running: a step of fanOutPages, or of a copier,
\* that stays possible is taken.  Nothing is asked of the decoder and of the
\* consumers.
MaxCopiers == Cardinality({i \in DOMAIN FanFile : FanFile[i].ev = "id start"})

FairSpecFan ==
    /\ SpecFan
    /\ WF_vars(FanOutPages)
    /\ \A c \in 1..MaxCopiers : WF_vars(c \in DOMAIN cop /\ FanOutRevisions(c))

-----------------------------------------------------------------------------
(* What the document says, read off doc without the state machine *)

\* The revisions channels made by a decoder, and the ones it published.
DecoderChans == {c \in DOMAIN revCh : origin[c].of = 0}

Published == {c \in DecoderChans : \E k \in DOMAIN pubs : pubs[k].page.Revisions = c}

\* A revision element that decodes.
IsRevTok(t) == t.ev = "revision start" /\ t.ok

\* The revision elements of the page whose <id> is token at of file f: the
\* revision tokens that follow it, up to the first token that is none.
PageRevsIn(d, at) ==
    LET stop == {j \in (at + 1)..Len(d) : ~IsRevTok(d[j])}
        last == IF stop = {} THEN Len(d) ELSE SetMin(stop) - 1
    IN  [i \in 1..(last - at) |-> d[at + i].rev]

PageRevs(f, at) == PageRevsIn(doc[f], at)

\* The serial (zero-based position) of the most recent revision before the
\* i-th of revs that has the same sha1, of 31 characters; -1 if there is none.
PrevSame(revs, i) ==
    LET same == {j \in 1..(i - 1) : revs[j].SHA1 = revs[i].SHA1 /\ Len(revs[i].SHA1) = 31}
    IN  IF same = {} THEN -1 ELSE SetMax(same) - 1

\* IsRevert as the specification defines it: serial - p - 1, or 0.
ExpectedIsRevert(revs, i) ==
    IF PrevSame(revs, i) = -1 THEN 0 ELSE (i - 1) - PrevSame(revs, i) - 1

\* The Revision values the page with revision elements revs is to deliver.
ExpectedRevisions(revs) ==
    [i \in DOMAIN revs |->
        Revision(revs[i].ID, revs[i].UserID, revs[i].UserID = 7, revs[i].Text,
                 revs[i].SHA1, ExpectedIsRevert(revs, i), <<2001, 1, 15, 13, 15, 0>>)]

\* The channel a replica copies (the channel itself, for one made by a decoder).
Root(c) == IF origin[c].of = 0 THEN c ELSE origin[c].of

RevsOf(c) == PageRevs(origin[Root(c)].f, origin[Root(c)].at)

\* d, from token i on, is pages of the form <page> <title> <id> <revision>*
\* </page>, every id an article and every element decodable, up to the end of
\* the input.
RECURSIVE WellFormedFrom(_, _)
WellFormedFrom(d, i) ==
    IF i > Len(d)
    THEN FALSE
    ELSE IF d[i].ev = "#EOF"
         THEN i = Len(d)
         ELSE /\ i + 2 <= Len(d)
              /\ d[i].ev = "page start"
              /\ d[i + 1].ev = "title start" /\ d[i + 1].ok
              /\ d[i + 2].ev = "id start" /\ d[i + 2].ok
              /\ d[i + 2].id \in DOMAIN article2Topic
              /\ LET revs == PageRevsIn(d, i + 2)
                     j == i + 3 + Len(revs)
                 IN  /\ \A k \in DOMAIN revs : revs[k].Timestamp = GoodTime
                     /\ j <= Len(d)
                     /\ d[j].ev = "page end"
                     /\ WellFormedFrom(d, j + 1)

WellFormed(d) == WellFormedFrom(d, 1)

\* The elements of a set of numbers in increasing order.
RECURSIVE Sorted(_)
Sorted(S) == IF S = {} THEN <<>> ELSE <<SetMin(S)>> \o Sorted(S \ {SetMin(S)})

\* The positions of the <id> elements of the pages of file f, in document order.
IdsOf(f) == Sorted({i \in DOMAIN doc[f] : doc[f][i].ev = "id start"})

\* The pages decoder f published, in the order of the sends.
PubsOf(f) == SelectSeq(pubs, LAMBDA p : p.f = f)

-----------------------------------------------------------------------------
(* The claims *)

\* C1: for every EvolvingPage a decoder (run) has published, the revisions
\* channel is closed on every way the decoder can stop (page end, invalid XML,
\* decode error, failure of the token read, cancellation): when run has returned,
\* the revisions channel of each page it published is closed.
C1_ClosedWhenRunReturns ==
    \A c \in Published : pc[origin[c].f] = "done" => revCh[c].closed

\* C2: the revisions channel of a published page is closed at most once and only
\* by the decoder that made it, and no revision is sent on it once it is closed:
\* no close of a closed channel and no send on a closed channel happen, the
\* closer of a closed channel is its maker, and no decoder stands at a send on
\* a closed channel.
C2_ClosedOnceByItsDecoder ==
    /\ panicked = ""
    /\ \A c \in DecoderChans :
        revCh[c].closed =>
            /\ revCh[c].closer = revCh[c].maker
            /\ \A f \in Files : ~(pc[f] = "sendRev" /\ st[f].Revisions = c)

\* C2 witness: a page that got revisions and whose channel was closed when its
\* decoder was cancelled at a send.
C2_Witness ==
    \E c \in Published :
        /\ revCh[c].closed
        /\ sent[c] # <<>>
        /\ pc[origin[c].f] = "done"
        /\ ret[origin[c].f] = Wrapf(ctxErr)

\* C3: every emitted revision has IsRevert = serial - p - 1, serial its
\* zero-based position among the revisions decoded for its page and p the serial
\* of the most recent earlier revision of the page with the same 31-character
\* sha1, and IsRevert = 0 if there is none; every serial stored in the map is
\* below the serial of the next revision, so the subtraction never wraps.
C3_IsRevertIsDistance ==
    /\ \A c \in DecoderChans : \A i \in DOMAIN sent[c] :
        /\ sent[c][i].ID = RevsOf(c)[i].ID
        /\ sent[c][i].IsRevert = ExpectedIsRevert(RevsOf(c), i)
        /\ sent[c][i].IsRevert >= 0
    /\ \A f \in Files :
        pc[f] = "sendRev" =>
            pend[f].rev.IsRevert =
                ExpectedIsRevert(RevsOf(st[f].Revisions), st[f].RevisionCount)
    /\ \A f \in Files : \A h \in DOMAIN st[f].SHA12SerialID :
        st[f].SHA12SerialID[h] < st[f].RevisionCount

\* C3 witness: a page has delivered a revert with one revision in between.
C3_Witness ==
    \E c \in DecoderChans :
        /\ Len(sent[c]) = 3
        /\ sent[c][1].SHA1 = sent[c][3].SHA1
        /\ sent[c][2].SHA1 # sent[c][3].SHA1
        /\ sent[c][3].IsRevert = 1

\* C4: every key of the hash-to-serial map has length 31, and a revision whose
\* sha1 has another length gets IsRevert = 0, also when the same short sha1
\* occurred before on the page.
C4_OnlyLength31Remembered ==
    /\ \A f \in Files : \A h \in DOMAIN st[f].SHA12SerialID : Len(h) = 31
    /\ \A c \in DecoderChans : \A i \in DOMAIN sent[c] :
        Len(sent[c][i].SHA1) # 31 => sent[c][i].IsRevert = 0

\* C4 witness: a short sha1 came back on the same page after another revision.
C4_Witness ==
    \E c \in DecoderChans :
        /\ Len(sent[c]) = 3
        /\ sent[c][1].SHA1 = ShaShort
        /\ sent[c][2].SHA1 = ShaA
        /\ sent[c][3].SHA1 = ShaShort

\* The earlier revisions of the page with the sha1, of 31 characters, of the i-th.
EarlierEqual(revs, i) ==
    {j \in 1..(i - 1) : revs[j].SHA1 = revs[i].SHA1 /\ Len(revs[i].SHA1) = 31}

\* C5 as stated: IsRevert = 0 exactly when no earlier revision of the page has
\* the same 31-character sha1, and IsRevert = n > 0 exactly when the revision
\* equals an earlier one with n revisions strictly between them.
C5_ZeroIffNoEarlierEqual ==
    \A c \in DecoderChans : \A i \in DOMAIN sent[c] :
        /\ sent[c][i].IsRevert = 0 <=> EarlierEqual(RevsOf(c), i) = {}
        /\ \A n \in 1..i :
            sent[c][i].IsRevert = n <=>
                \E j \in EarlierEqual(RevsOf(c), i) : i - j - 1 = n

\* C5 amended: IsRevert = 0 exactly when no earlier revision of the page has the
\* same 31-character sha1 or the most recent such revision is the one just
\* before, and IsRevert = n > 0 exactly when n revisions lie strictly between
\* the revision and the most recent earlier one with the same sha1.
C5_ZeroIffNoneOrAdjacent ==
    \A c \in DecoderChans : \A i \in DOMAIN sent[c] :
        LET earlier == EarlierEqual(RevsOf(c), i)
        IN  /\ sent[c][i].IsRevert = 0 <=> (earlier = {} \/ i - 1 \in earlier)
            /\ \A n \in 1..i :
                sent[c][i].IsRevert = n <=>
                    (earlier # {} /\ i - SetMax(earlier) - 1 = n)

\* C5 witness: a revision equal to the one just before it was delivered with
\* IsRevert = 0, and then the same content once more.
C5_Witness ==
    \E c \in DecoderChans :
        /\ Len(sent[c]) = 3
        /\ sent[c][1].SHA1 = ShaA /\ sent[c][2].SHA1 = ShaA /\ sent[c][3].SHA1 = ShaA
        /\ sent[c][2].IsRevert = 0

\* C6: for a well-formed file whose pages are all articles, without
\* cancellation, run returns nil, has published every page once and in document
\* order with its id, title and topic, and the channel of each page is closed
\* and has delivered (or still holds) exactly the revisions of the page, in
\* document order, with id, user id, sha1, timestamp and IsRevert.
C6_WellFormedFileDecoded ==
    \A f \in Files :
        (pc[f] = "done" /\ ~ctxDone /\ WellFormed(doc[f])) =>
            /\ ret[f] = NilErr
            /\ Len(PubsOf(f)) = Len(IdsOf(f))
            /\ \A k \in DOMAIN IdsOf(f) :
                LET at == IdsOf(f)[k]
                    p == PubsOf(f)[k]
                    c == p.page.Revisions
                IN  /\ p.at = at
                    /\ p.page.PageID = doc[f][at].id
                    /\ p.page.Title = doc[f][at - 1].title
                    /\ p.page.TopicID = article2Topic[doc[f][at].id]
                    /\ p.page.Abstract = ""
                    /\ revCh[c].closed
                    /\ recv[c] \o revCh[c].buf = ExpectedRevisions(PageRevs(f, at))

\* C6 witness: a well-formed file of two pages, one with revisions, was decoded
\* and the consumer has drained everything.
C6_Witness ==
    /\ pc[1] = "done" /\ ~ctxDone /\ WellFormed(doc[1])
    /\ Len(pubs) = 2
    /\ Len(got[1]) = 2
    /\ \A c \in Published : revCh[c].buf = <<>>
    /\ \E c \in Published : Len(recv[c]) >= 1

\* C8: no EvolvingPage is published for a page id on which the lookup fails, and
\* each published page carries the TopicID the lookup gives for its own PageID
\* and the title decoded for the same page: the page comes from an <id> token of
\* the file, the lookup of that id succeeds with the TopicID of the page, and the
\* title is the one of the last <title> before the id, inside the same <page>.
C8_PublishedPagesAreArticles ==
    \A k \in DOMAIN pubs :
        LET d == doc[pubs[k].f]
            at == pubs[k].at
            page == pubs[k].page
            titles == {j \in 1..(at - 1) : d[j].ev = "title start"}
        IN  /\ at \in DOMAIN d
            /\ d[at].ev = "id start" /\ d[at].ok
            /\ d[at].id = page.PageID
            /\ Article2TopicID(page.PageID) = [topicID |-> page.TopicID, ok |-> TRUE]
            /\ titles # {}
            /\ d[SetMax(titles)].ok /\ d[SetMax(titles)].title = page.Title
            /\ \A j \in SetMax(titles)..at : d[j].ev # "page start"

\* C8 witness: two pages with different titles and topics were published, after
\* a page that is no article.
C8_Witness ==
    /\ Len(pubs) = 2
    /\ pubs[1].page.Title # pubs[2].page.Title
    /\ pubs[1].page.TopicID # pubs[2].page.TopicID

\* The replicas FanOut made of the channels of the decoders.
Replicas == DOMAIN revCh \ DecoderChans

IDsOfPages(s) == [i \in DOMAIN s |-> s[i].PageID]

RevIDs(s) == [i \in DOMAIN s |-> s[i].ID]

\* The page stream the decoder put into OutStream, the input of FanOut.
InStream == [k \in DOMAIN pubs |-> pubs[k].page]

\* A step of the decoder, of its caller, of FanOut or of a consumer is possible.
Running ==
    ENABLED (\/ \E f \in Files : Decoder(f, FanInputs)
             \/ CloseOutStream
             \/ FanOutPages
             \/ \E c \in DOMAIN cop : FanOutRevisions(c)
             \/ \E o \in DOMAIN outs : Consumer(o))

\* C7: at every moment, the revisions delivered so far on the channel of a
\* published page, and on each replica FanOut made of it, are a prefix of the
\* revisions of the page in document order with their IsRevert; errors and
\* cancellation only cut the sequence short.
C7_DeliveredIsPrefix ==
    \A c \in DOMAIN revCh :
        /\ IsPrefix(recv[c], ExpectedRevisions(RevsOf(c)))
        /\ IsPrefix(recv[c] \o revCh[c].buf, ExpectedRevisions(RevsOf(c)))

\* C7 witness: after a cancellation one replica of a page has delivered its three
\* revisions, the revert among them, and the other replica of the same page was
\* closed with fewer.
C7_Witness ==
    /\ ctxDone
    /\ \E r1, r2 \in Replicas :
        /\ Root(r1) = Root(r2)
        /\ Len(recv[r1]) = 3 /\ recv[r1][3].IsRevert = 1
        /\ FoundClosed(revCh[r2]) /\ Len(recv[r2]) < 3

\* C9: without cancellation, each output of FanOut yields the page ids of the
\* input in the same order, each page with a replica channel of its own that
\* yields the revision ids of the input page in the same order; the replica and
\* the output are found closed only after everything was delivered, and when the
\* revision channels of the input were closed nothing stops before every replica
\* and every output is found closed.
C9_FanOutEquivalence ==
    ~ctxDone =>
        /\ \A o \in DOMAIN outs :
            /\ IsPrefix(IDsOfPages(got[o] \o pageCh[outs[o]].buf), IDsOfPages(InStream))
            /\ FoundClosed(pageCh[outs[o]]) =>
                /\ pageCh[1].closed
                /\ IDsOfPages(got[o]) = IDsOfPages(InStream)
            /\ \A i \in DOMAIN got[o] :
                LET r == got[o][i].Revisions
                    c == InStream[i].Revisions
                IN  /\ r \in Replicas /\ origin[r].of = c
                    /\ \A o2 \in DOMAIN outs \ {o} : \A j \in DOMAIN got[o2] :
                        got[o2][j].Revisions # r
                    /\ IsPrefix(RevIDs(recv[r] \o revCh[r].buf), RevIDs(sent[c]))
                    /\ FoundClosed(revCh[r]) =>
                        /\ revCh[c].closed
                        /\ RevIDs(recv[r]) = RevIDs(sent[c])
        /\ (~Running /\ \A c \in Published : revCh[c].closed) =>
            \A o \in DOMAIN outs :
                /\ FoundClosed(pageCh[outs[o]])
                /\ \A i \in DOMAIN got[o] : FoundClosed(revCh[got[o][i].Revisions])

\* C9 witness: both pages of the file, the first with its three revisions, went
\* through every output and every channel was found closed.
C9_Witness ==
    /\ ~ctxDone
    /\ Len(pubs) = 2
    /\ \A o \in DOMAIN outs :
        /\ FoundClosed(pageCh[outs[o]])
        /\ Len(got[o]) = 2
        /\ Len(recv[got[o][1].Revisions]) = 3
        /\ \A i \in DOMAIN got[o] : FoundClosed(revCh[got[o][i].Revisions])

\* fanOutPages and every copier have returned, every output and every replica
\* is closed, by the goroutine that owns it.
FanOutStopped ==
    /\ fan.pc = "done"
    /\ \A c \in DOMAIN cop : cop[c].pc = "done"
    /\ \A o \in DOMAIN outs :
        pageCh[outs[o]].closed /\ pageCh[outs[o]].closer = <<"fanOutPages", 0>>
    /\ \A r \in Replicas : revCh[r].closed

\* C10: once the context is cancelled, fanOutPages and every copier return, and
\* every output and every replica that was made gets closed, whatever the
\* consumers do and whatever is left in the inputs; no channel is closed twice.
C10_CancelStopsFanOut ==
    /\ [](panicked = "")
    /\ ctxDone ~> FanOutStopped

\* C10 witness: FanOut has stopped after a cancellation although no consumer
\* took anything and a revision was left in the input of a copier.
C10_Witness ==
    /\ ctxDone
    /\ FanOutStopped
    /\ \A o \in DOMAIN outs : got[o] = <<>>
    /\ \E c \in DOMAIN cop : revCh[cop[c].in].buf # <<>>

\* The orchestrator and every decoder task it started have ended.
TasksEnded ==
    /\ orch.pc = "done"
    /\ \A f \in Files : pc[f] \in {"idle", "exited"}

\* The errors that occurred: those run returned and the one that ended the
\* iteration over the files, io.EOF being its regular end.
ErrorsOccurred ==
    {ret[f] : f \in {g \in Files : pc[g] \in {"done", "exited"}}}
    \cup (IF orch.pc \in {"after", "wait", "done"} /\ latch # SetupErr
          THEN {orch.err} ELSE {})
    \cup (IF latch = SetupErr THEN {SetupErr} ELSE {})

\* C11: the first error given to fail is stored and cancels the context; once
\* stored it is never replaced, in particular not by the cancellation errors
\* that follow from it; nothing but a stored error cancels the context; and when
\* the orchestrator and the decoder tasks have ended, the stored error is one
\* of the errors that occurred, or nil if none occurred.
C11_FirstErrorLatched ==
    /\ [](latch # NilErr => ctxDone /\ latch.kind # ctxErr.kind)
    /\ [](ctxDone => latch # NilErr)
    /\ [][latch # NilErr => latch' = latch]_vars
    /\ [][\A f \in Files :
            (pc[f] = "done" /\ pc'[f] = "exited" /\ ret[f] # NilErr /\ latch = NilErr)
                => latch' = ret[f]]_vars
    /\ [][(orch.pc = "after" /\ orch'.pc = "wait" /\ orch.err # EOF /\ latch = NilErr)
            => latch' = orch.err]_vars
    /\ [](TasksEnded =>
            /\ latch = NilErr <=> ErrorsOccurred \subseteq {NilErr, EOF}
            /\ latch # NilErr => latch \in ErrorsOccurred)

\* C11 witness: the pipeline has ended with the error of one file stored, the
\* decoder of the other file having returned the cancellation that followed.
C11_Witness ==
    /\ TasksEnded
    /\ latch = Wrapf(ReadErr)
    /\ \E f \in Files : pc[f] = "exited" /\ ret[f] = Wrapf(ctxErr)
    /\ orch.err = EOF

\* No step of the pipeline or of a consumer is possible any more.
Quiet == ~ENABLED NextNew

\* Consumer o has returned: it found the output closed and the revisions
\* channel of every page it received closed.
ConsumerReturned(o) ==
    /\ FoundClosed(pageCh[outs[o]])
    /\ \A i \in DOMAIN got[o] : FoundClosed(revCh[got[o][i].Revisions])

\* C12: for a finite dump whose consumers drain every page they receive, every
\* decoder finishes, the output channel gets closed, every consumer returns and
\* fail(nil) returns nil when no error occurred: the pipeline and its consumers
\* never come to a stop before all of this is the case.
C12_PipelineEnds ==
    Quiet =>
        /\ TasksEnded
        /\ pageCh[2].closed
        /\ \A o \in DOMAIN outs : ConsumerReturned(o)
        /\ ErrorsOccurred \subseteq {NilErr, EOF} => latch = NilErr

\* Every goroutine New started has returned and the output is closed.
PipelineStopped ==
    /\ TasksEnded
    /\ \A w \in DOMAIN wrk : wrk[w].pc = "done"
    /\ \A k \in DOMAIN drn : drn[k].pc = "done"
    /\ pageCh[2].closed

\* C13: once the context is cancelled, every decoder task, the orchestrator,
\* every worker of the enricher and every drain helper terminate and the output
\* channel is closed, whatever the consumers do: after a cancellation the
\* pipeline never comes to a stop before all of them have returned.
C13_CancelStopsPipeline ==
    (ctxDone /\ ~ENABLED Pipeline(NewInputs)) => PipelineStopped

\* C14: when a consumer has received a page that has more revisions than the
\* buffer of its channel holds and nobody reads that channel, and the context is
\* not cancelled, the decoder of the page stands blocked on a revision send: the
\* channel is open, the file is not finished and neither the page channel of
\* the decoders nor the output is closed.
C14_UndrainedPageBlocksDecoder ==
    ~ctxDone =>
        \A o \in DOMAIN outs : \A i \in DOMAIN got[o] :
            LET c == got[o][i].Revisions
                f == origin[c].f
            IN  (Len(PageRevs(f, origin[c].at)) > revisionBufferSize /\ recv[c] = <<>>) =>
                    /\ pc[f] = "sendRev" /\ st[f].Revisions = c
                    /\ Len(revCh[c].buf) = revisionBufferSize
                    /\ ~revCh[c].closed
                    /\ ~pageCh[1].closed
                    /\ ~pageCh[2].closed

\* C14 witness: a consumer holds such a page and every goroutine but the
\* blocked decoder has nothing left to do.
C14_Witness ==
    /\ ~ctxDone
    /\ \E o \in DOMAIN outs : \E i \in DOMAIN got[o] :
        Len(PageRevs(1, origin[got[o][i].Revisions].at)) > revisionBufferSize
    /\ pc[1] = "sendRev"
    /\ ~ENABLED StallSteps

\* The pages that have left the enricher: those waiting in results and those
\* the consumers of New have received.
Delivered ==
    {pageCh[2].buf[i] : i \in DOMAIN pageCh[2].buf}
    \cup UNION {{got[o][i] : i \in DOMAIN got[o]} : o \in DOMAIN got}

\* How many times the page of revisions channel c is in results, with a
\* consumer, or in the hands of a worker that is about to send it.
Forwarded(c) ==
    Cardinality({i \in DOMAIN pageCh[2].buf : pageCh[2].buf[i].Revisions = c})
    + Cardinality({oi \in UNION {{<<o, i>> : i \in DOMAIN got[o]} : o \in DOMAIN got} :
                      got[oi[1]][oi[2]].Revisions = c})
    + Cardinality({w \in DOMAIN wrk : wrk[w].pc = "send" /\ wrk[w].p.Revisions = c})

LookupPassed(l) == l.wp.err = NilErr /\ l.wp.ID = l.page.PageID

\* C15: every page on the output of completeInfo was looked up with success
\* and with its own id, carries the abstract of that lookup and is otherwise
\* the page the decoder published; a page whose lookup failed or gave another
\* id is not on the output; a page is forwarded at most once, and exactly once
\* while the context is not cancelled.
C15_EnricherForwardsWhatPasses ==
    /\ \A q \in Delivered :
        \E i \in DOMAIN looked :
            /\ looked[i].page.Revisions = q.Revisions
            /\ LookupPassed(looked[i])
            /\ q.Abstract = looked[i].wp.Abstract
            /\ q.PageID = looked[i].page.PageID
            /\ q.Title = looked[i].page.Title
            /\ q.TopicID = looked[i].page.TopicID
            /\ \E k \in DOMAIN pubs : pubs[k].page = looked[i].page
    /\ \A i \in DOMAIN looked :
        /\ ~LookupPassed(looked[i]) => Forwarded(looked[i].page.Revisions) = 0
        /\ Forwarded(looked[i].page.Revisions) <= 1
        /\ (LookupPassed(looked[i]) /\ ~ctxDone) => Forwarded(looked[i].page.Revisions) = 1

\* C15 witness: without cancellation a consumer has received an enriched page
\* while another page was looked up with another id.
C15_Witness ==
    /\ ~ctxDone
    /\ \E o \in DOMAIN got : \E i \in DOMAIN got[o] : got[o][i].Abstract = "abstract"
    /\ \E i \in DOMAIN looked :
        looked[i].wp.err = NilErr /\ looked[i].wp.ID # looked[i].page.PageID

\* C16: a page with zero revisions (its revisions channel is closed and no
\* revision was ever sent on it) is never in results nor with a consumer of New.
C16_NoEmptyPageDelivered ==
    \A q \in Delivered :
        ~(revCh[q.Revisions].closed /\ sent[q.Revisions] = <<>>)

\* run has returned in the task of file f with an error of the file itself
\* (a read error or invalid XML), not with the error of the context.
FileFailed(f) ==
    /\ pc[f] \in {"done", "exited"}
    /\ ret[f].kind \notin {NilErr.kind, ctxErr.kind}

\* run has returned in the task of file f with the error of the context.
FileCancelled(f) ==
    /\ pc[f] \in {"done", "exited"}
    /\ ret[f].kind = ctxErr.kind

ResidentPages ==
    {c \in DOMAIN revCh :
        /\ \E k \in DOMAIN pubs : pubs[k].page.Revisions = c
        /\ ~(revCh[c].closed /\ revCh[c].buf = <<>>)}

RECURSIVE BufferedUpTo(_)
BufferedUpTo(c) == IF c = 0 THEN 0 ELSE Len(revCh[c].buf) + BufferedUpTo(c - 1)

\* The revisions that wait in the buffers of the revisions channels.
BufferedRevisions == BufferedUpTo(Len(revCh))

\* C18: at most 4 * pageBufferSize pages are resident and at most
\* 4 * pageBufferSize * revisionBufferSize revisions are buffered, in every
\* reachable state of the pipeline of New.
C18_BackpressureBound ==
    /\ Cardinality(ResidentPages) <= 4 * pageBufferSize
    /\ BufferedRevisions <= 4 * pageBufferSize * revisionBufferSize

\* C19: when run has returned because the read of the next token failed while
\* the builder was a bSetted, the revisions channel of the page of that builder
\* is closed.
C19_ClosedWhenTokenReadFails ==
    \A f \in Files :
        (/\ pc[f] = "done"
         /\ doc[f] # <<>>
         /\ doc[f][Len(doc[f])].ev \in {EndTok(EOF).ev, EndTok(ReadErr).ev}
         /\ st[f].state = "bSetted")
        => revCh[st[f].Revisions].closed

\* The decoder of channel c has returned on a start element ev that came while
\* the page of c was open: nothing but revisions lie between the id of the page
\* and that element.
StoppedInSettedOn(c, ev) ==
    LET f == origin[c].f
        n == Len(doc[f])
    IN  /\ pc[f] = "done"
        /\ n > origin[c].at
        /\ doc[f][n].ev = ev
        /\ \A i \in (origin[c].at + 1)..(n - 1) : doc[f][i].ev = "revision start"

\* C20: a <page>, a <title> or an <id> that comes while the page of a published
\* revisions channel is open ends run with the Invalid XML error and with the
\* channel closed.
C20_UnexpectedStartClosesChannel ==
    \A c \in Published : \A ev \in {"page start", "title start", "id start"} :
        StoppedInSettedOn(c, ev) =>
            /\ ret[origin[c].f] = Wrapf(errInvalidXML)
            /\ revCh[c].closed

\* The five events of the switch of run, and the ones the order <page>,
\* <title>, <id>, <revision>*, </page> allows next in each state.
PageEvents == {"page start", "title start", "id start", "revision start", "page end"}

AllowedNext(state) ==
    CASE state = "bBase" -> {"page start"}
      [] state = "bStarted" -> {"title start"}
      [] state = "bTitled" -> {"id start"}
      [] state = "bSetted" -> {"revision start", "page end"}
      [] OTHER -> {}

\* Decoder f takes a token in this step: the token it dispatches.
TakesToken(f) == pc[f] = "token" /\ Len(doc'[f]) > Len(doc[f])

TokenTaken(f) == doc'[f][Len(doc[f]) + 1]

\* C21: in each of the four states an event of the five that the order does not
\* allow next makes run return the wrapped Invalid XML error, an event it
\* allows never does, and once run has returned it reads no further token and
\* publishes no further page.
C21_OnlyTheOrderIsAccepted ==
    [][\A f \in Files :
        /\ (TakesToken(f) /\ TokenTaken(f).ev \in PageEvents) =>
              IF TokenTaken(f).ev \in AllowedNext(st[f].state)
              THEN ~(pc'[f] = "done" /\ ret'[f] = Wrapf(errInvalidXML))
              ELSE pc'[f] = "done" /\ ret'[f] = Wrapf(errInvalidXML) /\ panicked' = ""
        /\ pc[f] = "done" =>
              /\ pc'[f] \in {"done", "exited"}
              /\ doc'[f] = doc[f]
              /\ PubsOf(f)' = PubsOf(f)]_vars

\* C21 witness: run returned Invalid XML on a <page> that came inside a
\* published page, after its first revision.
C21_Witness ==
    /\ pc[1] = "done"
    /\ ret[1] = Wrapf(errInvalidXML)
    /\ Len(doc[1]) = 5
    /\ [i \in 1..5 |-> doc[1][i].ev]
         = <<"page start", "title start", "id start", "revision start", "page start">>
    /\ Len(PubsOf(1)) = 1

\* C22: a decoder that stands at the send of a page or of a revision can leave
\* it as soon as the context is done, whatever room the channel has; when it
\* leaves a send by returning, it returns the wrapped error of the context and
\* every revisions channel it published is closed.
C22_CancelUnblocksDecoder ==
    /\ [](\A f \in Files :
            (ctxDone /\ panicked = "") =>
                /\ pc[f] = "sendPage" => ENABLED DecPageCtxDone(f)
                /\ pc[f] = "sendRev" => ENABLED DecRevCtxDone(f))
    /\ [][\A f \in Files :
            (pc[f] \in {"sendPage", "sendRev"} /\ pc'[f] = "done") =>
                /\ ctxDone
                /\ ret'[f] = Wrapf(ctxErr)
                /\ \A c \in Published : origin[c].f = f => revCh'[c].closed]_vars

\* C22 witness: a decoder that had a revision to send on a full revisions
\* channel has returned the error of the context and the channel is closed.
C22_Witness ==
    \E c \in Published :
        /\ pc[origin[c].f] = "done"
        /\ ret[origin[c].f] = Wrapf(ctxErr)
        /\ revCh[c].closed
        /\ Len(revCh[c].buf) = revisionBufferSize
        /\ Len(PageRevs(origin[c].f, origin[c].at)) > Len(sent[c])

\* The revisions channels decoder f made that are not closed.
OpenChansOf(f) == {c \in DecoderChans : origin[c].f = f /\ ~revCh[c].closed}

\* C23: the pages of a file are published in the order of their <id> in the
\* document and enter the page channel in that order; a decoder has at most one
\* open revisions channel, and it publishes a page only when the channel of
\* every page it published before is closed.
C23_PagesInOrderOneOpenChannel ==
    /\ [](\A k, l \in DOMAIN pubs :
            (k < l /\ pubs[k].f = pubs[l].f) => pubs[k].at < pubs[l].at)
    /\ [](\A k \in DOMAIN pubs :
            /\ doc[pubs[k].f][pubs[k].at].ev = "id start"
            /\ doc[pubs[k].f][pubs[k].at].id = pubs[k].page.PageID)
    /\ [](got[1] \o pageCh[1].buf = [k \in DOMAIN pubs |-> pubs[k].page])
    /\ [](\A f \in Files : Cardinality(OpenChansOf(f)) <= 1)
    /\ [][\A f \in Files :
            Len(PubsOf(f)') > Len(PubsOf(f)) =>
                \A c \in Published : origin[c].f = f => revCh[c].closed]_vars

\* C23 witness: the decoder has published a second page, whose channel is
\* open, after the channel of the first, which got a revision, was closed.
C23_Witness ==
    /\ Len(PubsOf(1)) = 2
    /\ sent[pubs[1].page.Revisions] # <<>>
    /\ revCh[pubs[1].page.Revisions].closed
    /\ ~revCh[pubs[2].page.Revisions].closed

\* C24: the page channel of the decoders is closed once, by the orchestrator,
\* and only when no decoder task runs any more; it stays closed, no channel is
\* closed twice and no decoder sends on a closed channel.
C24_PageChannelClosedAfterTasks ==
    /\ [](panicked = "")
    /\ [](pageCh[1].closed =>
            /\ pageCh[1].closer = <<"New", 0>>
            /\ orch.pc = "done"
            /\ RunningTasks = {})
    /\ [][pageCh[1].closed => pageCh'[1].closed]_vars
    /\ [][(~pageCh[1].closed /\ pageCh'[1].closed) =>
            (orch.pc = "wait" /\ \A f \in Files : pc[f] \in {"idle", "exited"})]_vars

\* C24 witness: the orchestrator closed the page channel after the task of a
\* file that failed and the task of a file that was cancelled had returned.
C24_Witness ==
    /\ pageCh[1].closed
    /\ pageCh[1].closer = <<"New", 0>>
    /\ \E f, g \in Files :
        /\ pc[f] = "exited" /\ ret[f].kind = ReadErr.kind
        /\ pc[g] = "exited" /\ ret[g].kind = ctxErr.kind

\* C25: at most pageBufferSize decoder tasks run at any moment: the task of a
\* file starts only in the step of the orchestrator that gets a slot for that
\* file, when fewer than pageBufferSize tasks run, and a task leaves the
\* running ones only by the step that follows the return of run.
C25_AtMostKDecoderTasks ==
    /\ [](Cardinality(RunningTasks) <= pageBufferSize)
    /\ [][\A f \in Files :
            /\ (f \notin RunningTasks /\ f \in RunningTasks') =>
                    /\ orch.pc = "add"
                    /\ orch.r = f
                    /\ readers[f] = "open"
                    /\ Cardinality(RunningTasks) < pageBufferSize
            /\ (f \in RunningTasks /\ f \notin RunningTasks') =>
                    /\ pc[f] = "done"
                    /\ pc'[f] = "exited"]_vars

\* Every slot is taken and the orchestrator waits for one with a further file
\* in hand, the context not being done.
C25_Witness ==
    /\ Cardinality(RunningTasks) = pageBufferSize
    /\ orch.pc = "add"
    /\ orch.r \notin RunningTasks
    /\ ~ctxDone
    /\ ~ENABLED OrchAdd

\* C26: every reader the dump source yields is closed exactly once, by the step
\* that follows the return of its decoder task or by the orchestrator when the
\* acquisition of its slot is cancelled, and none is open once the page channel
\* is closed.
C26_EveryReaderClosedOnce ==
    /\ [](\A f \in Files :
            /\ readers[f] \in {"none", "open", "closed"}
            /\ readers[f] = "none" => pc[f] = "idle"
            /\ pc[f] = "exited" => readers[f] = "closed"
            /\ f \in RunningTasks => readers[f] = "open"
            /\ pageCh[1].closed => readers[f] # "open")
    /\ [][\A f \in Files :
            /\ readers[f] = "closed" => readers'[f] = "closed"
            /\ (readers[f] = "open" /\ readers'[f] # "open") =>
                    \/ pc[f] = "done" /\ pc'[f] = "exited"
                    \/ /\ pc[f] = "idle" /\ pc'[f] = "idle"
                       /\ orch.pc = "add" /\ orch.r = f /\ ctxDone
                       /\ orch'.pc = "after"]_vars

\* The page channel is closed; the reader of one file was closed by its task,
\* which had failed, and the reader of the next by the orchestrator, no task
\* having been started for it.
C26_Witness ==
    /\ pageCh[1].closed
    /\ \E f, g \in Files :
        /\ readers[f] = "closed" /\ pc[f] = "exited" /\ ret[f] # NilErr
        /\ readers[g] = "closed" /\ pc[g] = "idle"

\* The drain helpers that read revisions channel c.
HelpersOf(c) == {k \in DOMAIN drn : drn[k].ch = c}

\* The lookups that ended in the filtering of the page.
FilteredLookups == {i \in DOMAIN looked : Filtered(looked[i].page, looked[i].wp)}

\* C27: filtering does not block the pipeline.  The worker that filters a page
\* is back at the receive of the next page in the same step, a helper having
\* been started for the revisions of the page, and whenever a page waits it can
\* take it, whatever the helpers have read; the decoder of a filtered page is
\* never stuck at the send of a revision, since either the send or the
\* receive of the helper is possible; and when nothing can happen any more and
\* the file was read without error, every revision of every filtered page has
\* been sent and read by its helper and the channel is closed, nobody having
\* read results and the context not being cancelled by the caller.
C27_FilteringDoesNotBlock ==
    /\ [](\A i \in FilteredLookups : HelpersOf(looked[i].page.Revisions) # {})
    /\ [](\A w \in DOMAIN wrk :
            (panicked = "" /\ wrk[w].pc = "recv" /\ pageCh[1].buf # <<>>) =>
                ENABLED WrkTake(w))
    /\ [](\A f \in Files :
            (panicked = "" /\ pc[f] = "sendRev" /\ HelpersOf(st[f].Revisions) # {}) =>
                \/ ENABLED DecSendRev(f)
                \/ \E k \in HelpersOf(st[f].Revisions) : ENABLED DrnRecv(k))
    /\ []((~ENABLED NextDrain /\ ret[1] = NilErr) =>
            \A i \in FilteredLookups :
                LET c == looked[i].page.Revisions
                IN  /\ revCh[c].closed
                    /\ revCh[c].buf = <<>>
                    /\ Len(recv[c]) = Len(PageRevs(origin[c].f, origin[c].at))
                    /\ sent[c] = recv[c]
                    /\ \A k \in HelpersOf(c) : drn[k].pc = "done")
    /\ [][\A w \in DOMAIN wrk :
            (wrk[w].pc = "recv" /\ Len(looked') > Len(looked)
                /\ Filtered(looked'[Len(looked')].page, looked'[Len(looked')].wp)) =>
                    /\ wrk'[w].pc = "recv"
                    /\ Len(drn') = Len(drn) + 1
                    /\ drn'[Len(drn')] =
                            [ch |-> looked'[Len(looked')].page.Revisions, pc |-> "run"]
                    /\ pageCh'[2] = pageCh[2]]_vars

\* The file was read to its end without error and nothing can happen any more;
\* the filtered page had more revisions than the buffer of its channel holds,
\* all of them went to the helper, and nobody has read results.
C27_Witness ==
    /\ ~ENABLED NextDrain
    /\ ret[1] = NilErr
    /\ panicked = ""
    /\ \A o \in DOMAIN got : got[o] = <<>>
    /\ \E i \in FilteredLookups :
        /\ Len(recv[looked[i].page.Revisions]) > revisionBufferSize
        /\ revCh[looked[i].page.Revisions].closed
    /\ Len(looked) = 2
    /\ Len(pageCh[2].buf) = 1

\* The outputs the running send loop has served: those that are neither in a
\* send case of the select nor still waiting for one.
ServedOf(slots, stillWaiting, n) ==
    (1..n) \ (slots \cup {stillWaiting[i] : i \in DOMAIN stillWaiting})

\* The send loop is in order: a send case for each of the first three targets
\* that are left, no target twice, as many targets left as iterations.
SlotsInOrder(slots, stillWaiting, iter) ==
    /\ Cardinality(slots) = IF iter < 3 THEN iter ELSE 3
    /\ Cardinality({stillWaiting[i] : i \in DOMAIN stillWaiting}) = Len(stillWaiting)
    /\ slots \cap {stillWaiting[i] : i \in DOMAIN stillWaiting} = {}
    /\ Cardinality(slots) + Len(stillWaiting) = iter

\* The pages output o was sent, read by its consumer or not yet.
PagesOut(o) == got[o] \o pageCh[outs[o]].buf

\* The pages fanOutPages has taken from its input.
PagesTaken == Len(pubs) - Len(pageCh[1].buf)

\* C28: the send loop of fanOutPages and of fanOutRevisions sends the item it
\* holds once to each of the n outputs: while it runs, the outputs it has served
\* have the item and the others do not have it yet, a send case is up for each
\* of the first three targets left (two when n = 2), and when it is over, the
\* context not being cancelled, every output has every item taken so far, once
\* and in the order of the input.
C28_SendLoopServesEachOutputOnce ==
    /\ fan.pc = "send" =>
        /\ SlotsInOrder(fan.slots, fan.stillWaiting, fan.iter)
        /\ fan.iter >= 1
        /\ \A o \in DOMAIN outs :
            Len(PagesOut(o)) =
                IF o \in ServedOf(fan.slots, fan.stillWaiting, Len(outs))
                THEN PagesTaken ELSE PagesTaken - 1
    /\ (fan.pc = "recv" \/ (fan.pc = "done" /\ ~ctxDone)) =>
        \A o \in DOMAIN outs : Len(PagesOut(o)) = PagesTaken
    /\ fan.pc # "off" =>
        \A o \in DOMAIN outs : \A i \in DOMAIN PagesOut(o) :
            /\ i <= Len(pubs)
            /\ PagesOut(o)[i] =
                    [pubs[i].page EXCEPT !.Revisions = PagesOut(o)[i].Revisions]
            /\ PagesOut(o)[i].Revisions = cop[i].out[o]
            /\ cop[i].in = pubs[i].page.Revisions
    /\ \A c \in DOMAIN cop :
        /\ cop[c].pc = "send" =>
            /\ SlotsInOrder(cop[c].slots, cop[c].stillWaiting, cop[c].iter)
            /\ cop[c].iter >= 1
            /\ recv[cop[c].in] # <<>>
            /\ \A o \in DOMAIN cop[c].out :
                sent[cop[c].out[o]] =
                    IF o \in ServedOf(cop[c].slots, cop[c].stillWaiting, Len(cop[c].out))
                    THEN recv[cop[c].in]
                    ELSE SubSeq(recv[cop[c].in], 1, Len(recv[cop[c].in]) - 1)
        /\ (cop[c].pc = "recv" \/ (cop[c].pc = "done" /\ ~ctxDone)) =>
            \A o \in DOMAIN cop[c].out : sent[cop[c].out[o]] = recv[cop[c].in]

\* FanOut had four outputs, one more than the select has send cases; its send
\* loops are over and every output has the page with both of its revisions.
C28_Witness ==
    /\ ~ctxDone
    /\ Len(outs) = 4
    /\ fan.pc = "done"
    /\ Len(pubs) = 1
    /\ Len(cop) = 1 /\ cop[1].pc = "done"
    /\ \A o \in DOMAIN outs :
        /\ Len(got[o]) = 1
        /\ Len(recv[got[o][1].Revisions]) = revisionBufferSize + 1

\* The outputs the running send loop has not served yet.
UnservedOf(slots, stillWaiting) == slots \cup Range(stillWaiting)

PageBufferFull(o) == Len(pageCh[outs[o]].buf) >= pageBufferSize

ReplicaFull(c, o) == Len(revCh[cop[c].out[o]].buf) >= revisionBufferSize

\* C29: a slow replica does not starve the others within one item.  While the
\* buffer of one output is full and the others have room, a send loop that has
\* not served every other output can send to one of them at once, whatever the
\* order of the targets; and when one output is never read and nothing can
\* happen any more, every other output has been sent, and its consumer has
\* read, every page the coordinator took and every revision the copiers took.
C29_SlowReplicaDoesNotStarve ==
    /\ \A s \in DOMAIN outs :
        (/\ panicked = "" /\ fan.pc = "send"
         /\ PageBufferFull(s)
         /\ \A o \in DOMAIN outs \ {s} : ~PageBufferFull(o)
         /\ UnservedOf(fan.slots, fan.stillWaiting) \ {s} # {}) =>
            \E o \in fan.slots \ {s} : ENABLED FanSend(o)
    /\ \A c \in DOMAIN cop : \A s \in DOMAIN cop[c].out :
        (/\ panicked = "" /\ cop[c].pc = "send"
         /\ ReplicaFull(c, s)
         /\ \A o \in DOMAIN cop[c].out \ {s} : ~ReplicaFull(c, o)
         /\ UnservedOf(cop[c].slots, cop[c].stillWaiting) \ {s} # {}) =>
            \E o \in cop[c].slots \ {s} : ENABLED CopSend(c, o)
    /\ ~ENABLED NextSlow =>
        \A o \in DOMAIN outs \ {SlowOut} :
            /\ Len(got[o]) = PagesTaken
            /\ \A c \in DOMAIN cop : recv[cop[c].out[o]] = recv[cop[c].in]

\* FanOut has four outputs and the first is never read: the copier of the page
\* stands at the send of the second revision to the replica of the first
\* output, whose buffer is full, and every other replica has yielded both
\* revisions; nothing else is left to do.
C29_Witness ==
    /\ ~ENABLED NextSlow
    /\ Len(outs) = 4
    /\ got[SlowOut] = <<>>
    /\ Len(cop) = 1
    /\ cop[1].pc = "send" /\ cop[1].slots = {SlowOut} /\ cop[1].iter = 1
    /\ ReplicaFull(1, SlowOut)
    /\ \A o \in DOMAIN outs \ {SlowOut} :
        Len(recv[cop[1].out[o]]) = revisionBufferSize + 1

\* C30: when one output is never read and the context is not cancelled, every
\* other output is sent at most pageBufferSize + 1 pages and each of its
\* replicas at most revisionBufferSize + 1 revisions; the coordinator takes the
\* next page only when every output has accepted the pages taken before; and
\* when nothing can happen any more with the coordinator in its send loop, it
\* waits for the unread output alone, whose buffer is full, and the others
\* have read the pageBufferSize + 1 pages they were sent.
C30_FanOutBackpressure ==
    /\ []((~ctxDone /\ got[SlowOut] = <<>>) =>
            \A o \in DOMAIN outs \ {SlowOut} :
                /\ Len(PagesOut(o)) <= pageBufferSize + 1
                /\ \A c \in DOMAIN cop :
                    Len(sent[cop[c].out[o]]) <= revisionBufferSize + 1)
    /\ []((~ENABLED NextSlow /\ fan.pc = "send") =>
            /\ fan.slots = {SlowOut} /\ fan.stillWaiting = <<>>
            /\ Len(pageCh[outs[SlowOut]].buf) = pageBufferSize
            /\ PagesTaken = pageBufferSize + 1
            /\ \A o \in DOMAIN outs \ {SlowOut} :
                Len(got[o]) = pageBufferSize + 1 /\ pageCh[outs[o]].buf = <<>>)
    /\ [][PagesTaken' > PagesTaken =>
            \A o \in DOMAIN outs : Len(PagesOut(o)) = PagesTaken]_vars

\* Three outputs, the first never read: the decoder has put every page of the
\* file into its channel and the last is still there; the coordinator waits
\* for the unread output with the page before it, the other outputs have read
\* pageBufferSize + 1 pages and revisionBufferSize + 1 of the revisionBufferSize
\* + 2 revisions of the first page, and nothing can happen any more.
C30_Witness ==
    /\ ~ENABLED NextSlow
    /\ ~ctxDone
    /\ Len(outs) = 3
    /\ Len(pubs) = pageBufferSize + 2
    /\ pageCh[1].buf # <<>>
    /\ fan.pc = "send"
    /\ Len(sent[pubs[1].page.Revisions]) = revisionBufferSize + 2
    /\ \A o \in DOMAIN outs \ {SlowOut} :
        /\ Len(got[o]) = pageBufferSize + 1
        /\ Len(recv[got[o][1].Revisions]) = revisionBufferSize + 1

\* Decoder f takes, in this step, the <id> of a page on which the lookup fails.
SkipsPage(f) ==
    /\ TakesToken(f)
    /\ st[f].state = "bTitled"
    /\ TokenTaken(f).ev = "id start"
    /\ TokenTaken(f).ok
    /\ ~Article2TopicID(TokenTaken(f).id).ok

\* The tokens the decoder read in this step after the one it dispatched.
SkippedTokens(f) == SubSeq(doc'[f], Len(doc[f]) + 2, Len(doc'[f]))

\* C31: when the lookup fails for the id of a page, the step publishes nothing
\* and makes no channel; the rest of the page, its </page> included, is read
\* within the same step, without a transition of the builder for any of its
\* tokens, which leaves the builder in the base state it had before the first
\* page, with no error and the decoder at its next token; the only other
\* outcome is the error of a read that fails before the </page>.  From the
\* base state the next <page> starts a page like the first one of the file.
C31_NonArticleIsSkipped ==
    [][\A f \in Files :
        /\ SkipsPage(f) =>
            /\ pubs' = pubs
            /\ pageCh' = pageCh
            /\ revCh' = revCh
            /\ pend' = pend
            /\ panicked' = ""
            /\ IF Skip(SkippedTokens(f)).err = NilErr
               THEN /\ Skip(SkippedTokens(f)).n = Len(SkippedTokens(f))
                    /\ SkippedTokens(f)[Len(SkippedTokens(f))].ev = "page end"
                    /\ st'[f] = bBase_New(nilBuilder)
                    /\ pc'[f] = "token"
                    /\ ret'[f] = NilErr
               ELSE /\ pc'[f] = "done"
                    /\ ret'[f] = Wrapf(ReadErr)
        /\ (TakesToken(f) /\ st[f] = bBase_New(nilBuilder)
                /\ TokenTaken(f).ev = "page start") =>
            /\ st'[f] = bBase_NewPage(st[f]).be
            /\ pc'[f] = "token"
            /\ ret'[f] = NilErr]_vars

\* C31 witness: the first page of the file was no article and held a revision
\* before its </page>; nothing of it was published, and the page that follows
\* was published with its own title and id.
C31_Witness ==
    /\ Len(doc[1]) >= 8
    /\ [i \in 1..8 |-> doc[1][i].ev]
         = <<"page start", "title start", "id start", "revision start", "page end",
             "page start", "title start", "id start">>
    /\ doc[1][3].id = 100
    /\ Len(PubsOf(1)) = 1
    /\ PubsOf(1)[1].page.PageID = doc[1][8].id
    /\ PubsOf(1)[1].page.Title = doc[1][7].title
    /\ PubsOf(1)[1].at = 8
    /\ \A c \in DOMAIN sent : sent[c] = <<>>

\* Decoder f takes, in this step, a revision whose timestamp does not parse,
\* inside a published page.
TakesBadTimestamp(f) ==
    /\ TakesToken(f)
    /\ st[f].state = "bSetted"
    /\ TokenTaken(f).ev = "revision start"
    /\ TokenTaken(f).ok
    /\ timeParse(TokenTaken(f).rev.Timestamp).err # NilErr

\* The revisions channels decoder f made.
ChansOf(f) == {c \in DecoderChans : origin[c].f = f}

\* C33: a revision whose timestamp does not parse is not sent; the step closes
\* the revisions channel of the page and run returns the wrapped error of the
\* parse; after run has returned, the decoder reads nothing, publishes no page
\* and sends no revision.
C33_BadTimestampIsFatal ==
    [][\A f \in Files :
        /\ TakesBadTimestamp(f) =>
            /\ panicked' = ""
            /\ pc'[f] = "done"
            /\ ret'[f] = Wrapf(TimeErr)
            /\ ret'[f] # NilErr
            /\ revCh'[st[f].Revisions].closed
            /\ revCh'[st[f].Revisions].closer = <<"run", f>>
            /\ revCh'[st[f].Revisions].buf = revCh[st[f].Revisions].buf
            /\ sent' = sent
            /\ pubs' = pubs
        /\ pc[f] = "done" =>
            /\ pc'[f] \in {"done", "exited"}
            /\ doc'[f] = doc[f]
            /\ PubsOf(f)' = PubsOf(f)
            /\ \A c \in ChansOf(f) : c \in DOMAIN sent' /\ sent'[c] = sent[c]]_vars

\* C33 witness: the second revision of a published page had a timestamp that
\* does not parse: run returned the error, the channel is closed and holds
\* the first revision only, which its consumer has read.
C33_Witness ==
    /\ pc[1] = "done"
    /\ ret[1] = Wrapf(TimeErr)
    /\ Len(doc[1]) = 5
    /\ doc[1][4].ev = "revision start" /\ doc[1][4].rev.Timestamp = GoodTime
    /\ doc[1][5].ev = "revision start" /\ doc[1][5].rev.Timestamp = BadTime
    /\ \E c \in ChansOf(1) :
        /\ FoundClosed(revCh[c])
        /\ Len(sent[c]) = 1 /\ sent[c][1].ID = doc[1][4].rev.ID
        /\ recv[c] = sent[c]

\* The number of elements that are none of the five and are open after the
\* tokens d.
RECURSIVE UnknownDepth(_)
UnknownDepth(d) ==
    IF d = <<>> THEN 0
    ELSE LET k == UnknownDepth(SubSeq(d, 1, Len(d) - 1))
         IN  CASE Last(d).ev = "other start" -> k + 1
               [] Last(d).ev = "other end" /\ k > 0 -> k - 1
               [] OTHER -> k

\* Decoder f takes, in this step, a start element of the five that is nested in
\* an unknown element of a page whose title or id has not been read yet.
TakesNested(f) ==
    /\ TakesToken(f)
    /\ st[f].state \in {"bStarted", "bTitled"}
    /\ UnknownDepth(doc[f]) > 0
    /\ TokenTaken(f).ev \in {"page start", "title start", "id start", "revision start"}

\* C32: a <title>, <id>, <revision> or <page> nested in an unknown element that
\* is open inside a page before its title or its id is skipped with it: the
\* step changes no state of the decoder, ends run with no error and publishes
\* no page.
C32_UnknownSubtreeSkipped ==
    [][\A f \in Files :
        TakesNested(f) =>
            /\ st'[f] = st[f]
            /\ pc'[f] = "token"
            /\ ret'[f] = NilErr
            /\ revCh' = revCh]_vars

\* C34: the memory of reverts is per page: when a page is published its builder
\* has counted no revision and remembers no sha1, the first revision sent for a
\* page has IsRevert = 0, and a revision has IsRevert > 0 only if an earlier
\* revision of the same page had its sha1, whatever earlier pages held.
C34_RevertMemoryPerPage ==
    /\ \A f \in Files :
        pc[f] = "sendPage" =>
            /\ st[f].state = "bSetted"
            /\ st[f].RevisionCount = 0
            /\ DOMAIN st[f].SHA12SerialID = {}
    /\ \A c \in DecoderChans :
        /\ sent[c] # <<>> => sent[c][1].IsRevert = 0
        /\ \A i \in DOMAIN sent[c] :
            sent[c][i].IsRevert # 0 =>
                \E j \in 1..(i - 1) : sent[c][j].SHA1 = sent[c][i].SHA1
    /\ \A f \in Files :
        pc[f] = "sendRev" /\ pend[f].rev.IsRevert # 0 =>
            \E j \in DOMAIN sent[st[f].Revisions] :
                sent[st[f].Revisions][j].SHA1 = pend[f].rev.SHA1

\* C34 witness: the second page of a file has sent its first revision, with the
\* sha1 of the revision of the first page, and its IsRevert is 0.
C34_Witness ==
    \E c, e \in DecoderChans :
        /\ origin[c].f = origin[e].f
        /\ origin[c].at < origin[e].at
        /\ Len(sent[c]) = 1
        /\ Len(sent[e]) = 1
        /\ sent[c][1].SHA1 = sent[e][1].SHA1
        /\ Len(sent[e][1].SHA1) = 31
        /\ sent[e][1].IsRevert = 0

\* The counter of the wait group of completeInfo: the workers and the drain
\* helpers that have not returned.
WaitGroupCount ==
    Cardinality({w \in DOMAIN wrk : wrk[w].pc # "done"})
        + Cardinality({k \in DOMAIN drn : drn[k].pc # "done"})

\* C35: results is closed by completeInfo only, and only when every worker and
\* every drain helper has returned; every page that was filtered has its helper
\* in the wait group from the step of the worker that filtered it, and while
\* the counter of the wait group is positive the wait cannot return.
C35_ResultsClosedAfterAll ==
    /\ panicked # "close of closed channel"
    /\ (pageCh[2].closed /\ pageCh[2].maker = <<"completeInfo", 0>>) =>
        /\ pageCh[2].closer = <<"completeInfo", 0>>
        /\ WaitGroupCount = 0
        /\ Len(wrk) = pageBufferSize
    /\ \A i \in FilteredLookups :
        Cardinality(HelpersOf(looked[i].page.Revisions)) = 1
    /\ Len(drn) = Cardinality(FilteredLookups)
    /\ WaitGroupCount > 0 => ~ENABLED EnrClose

\* C35 witness: results was closed after a drain helper had read a revision of
\* a filtered page to the end of its channel and every worker had returned.
C35_Witness ==
    /\ pageCh[2].closed
    /\ pageCh[2].closer = <<"completeInfo", 0>>
    /\ \E k \in DOMAIN drn :
        /\ drn[k].pc = "done"
        /\ recv[drn[k].ch] # <<>>
    /\ \E f \in Files : pubs # <<>> /\ ret[f] = NilErr /\ pc[f] = "exited"

\* New returned the channel it made and closed itself: its setup failed.
SetupFailed == pageCh[2].maker = <<"New", 0>>

\* C36: when the setup of New fails, the error was passed to fail, so that the
\* context is cancelled and fail(nil) returns that error; the channel New
\* returns is closed and empty, so that every consumer ranging over it has ended
\* with no page; and nothing was started: no orchestrator, decoder, worker or
\* drain helper exists, no file was opened, no channel of revisions was made,
\* and no step of the pipeline is possible.
C36_SetupFailureStartsNothing ==
    SetupFailed =>
        /\ panicked = ""
        /\ latch = SetupErr
        /\ ctxDone
        /\ Fail(latch, ctxDone, NilErr).latch = SetupErr
        /\ FoundClosed(pageCh[2])
        /\ pageCh[2].closer = <<"New", 0>>
        /\ \A o \in DOMAIN outs : outs[o] = 2 /\ got[o] = <<>> /\ ConsumerReturned(o)
        /\ orch.pc = "done"
        /\ wrk = <<>>
        /\ drn = <<>>
        /\ \A f \in Files : pc[f] = "idle" /\ readers[f] = "none" /\ doc[f] = <<>>
        /\ revCh = <<>>
        /\ pubs = <<>>
        /\ looked = <<>>
        /\ ~ENABLED NextNew

\* C36 witness: New has returned after a failed setup, the error stored.
C36_Witness ==
    /\ SetupFailed
    /\ latch = SetupErr
    /\ latch # NilErr
    /\ pageCh[2].closed
    /\ wrk = <<>>

====
